---------------------------- MODULE Spec2Model ----------------------------
(***************************************************************************)
(* Model of the vocabulary-learning engine of roma4in1/vocab-app:          *)
(*   - lib/sm2.ts       the SM-2 interval scheduler (calculateSM2)         *)
(*   - lib/cycles.ts    the learning-cycle lifecycle                       *)
(*                      (checkAndCreateNewCycle, createNewCycle,           *)
(*                       insertCycleWords, forceNewCycle)                  *)
(*   - lib/learning.ts  the use of the scheduler by updateWordProgress     *)
(*                                                                         *)
(* Units.  Ease factors are kept in hundredths (2.5 is 250): every ease    *)
(* the program stores is either the default 2.5 or the output of           *)
(* toFixed(2), so hundredths are exact.  Dates are day numbers.            *)
(***************************************************************************)
EXTENDS Integers, Sequences, FiniteSets, TLC

VARIABLES
    today,       \* the UTC calendar day of the clock (new Date())
    vocabulary,  \* vocabulary_words: the set of word ids of the seeded pool
    cycles,      \* learning_cycles: sequence of rows, a row's id is its index
    cycleWords,  \* cycle_words: the set of rows (cycle_id, word_id, position)
    catState,    \* cat_state: the set of rows, one per couple_id
    calls,       \* the cycle operations in flight: call slot -> its local state
    sm2In,       \* arguments of the calculateSM2 call under study
    sm2Out,      \* its result, or NoResult before the call
    userProgress,  \* user_progress: the set of rows
    dailyStats,    \* daily_stats: the set of rows
    sessions,      \* the learn pages that are open: session slot -> its state
    happinessIn,   \* argument of the calculateCatHappiness call under study
    happinessOut,  \* its result, or NoResult before the call
    qualitiesIn,   \* a word's activity qualities of the session under study
    avgQualityOut, \* the quality computed from them, or NoResult before
    batch,         \* the batchUpdateWordProgress call under study
    generation,    \* the generateAndShuffleActivities call under study
    readClock,     \* `new Date()` of the checkAndCreateNewCycle call under study
    streakCall,    \* the getUserStats call under study
    keyCall        \* the derivations of the pairing key under study

vars == <<today, vocabulary, cycles, cycleWords, catState, calls, sm2In, sm2Out,
          userProgress, dailyStats, sessions,
          happinessIn, happinessOut, qualitiesIn, avgQualityOut, batch,
          generation, readClock,
          streakCall,
          keyCall>>

cycleVars == <<today, vocabulary, cycles, cycleWords, catState, calls>>
sm2Vars == <<sm2In, sm2Out>>
learnVars == <<userProgress, dailyStats, sessions>>
pureVars == <<generation, readClock, streakCall, keyCall>>
studyVars == <<happinessIn, happinessOut, qualitiesIn, avgQualityOut, batch, pureVars>>

Max(a, b) == IF a >= b THEN a ELSE b
Min(a, b) == IF a <= b THEN a ELSE b

(***************************************************************************)
(*                     Date: instants and calendar days                    *)
(*                                                                         *)
(* An instant is a number of hours since 00:00 UTC of day 0; `today` is    *)
(* the UTC day of the clock.  A Date of the program is an instant; its     *)
(* local fields (getDate, setDate, setHours) go through the time zone of   *)
(* the device, its UTC fields (toISOString, setUTCHours, the parse of a    *)
(* 'YYYY-MM-DD' string) do not.  A date string is a day number.            *)
(***************************************************************************)

HoursPerDay == 24

MaxDay == 3        \* the clock runs over days 0 .. MaxDay

\* The time zones of the devices: the standard offset from UTC in hours and
\* the daylight-saving change of the offset by `delta` at the instant `dstAt`
\* (Europe/Paris goes from UTC+1 to UTC+2 at 01:00 UTC of the last day).
Zones ==
    { [name |-> "UTC", std |-> 0, delta |-> 0, dstAt |-> 0],
      [name |-> "Asia/Seoul", std |-> 9, delta |-> 0, dstAt |-> 0],
      [name |-> "America/New_York", std |-> -5, delta |-> 0, dstAt |-> 0],
      [name |-> "Europe/Paris", std |-> 1, delta |-> 1,
       dstAt |-> MaxDay * HoursPerDay + 1] }

\* The hours of the day at which the clock is read.
HoursOfDay == {0, 12, 23}

\* What a read of the clock (new Date()) can give on the day `today`: the
\* instant and the zone of the device.
Clocks(day) ==
    { [now |-> day * HoursPerDay + h, zone |-> z] : h \in HoursOfDay, z \in Zones }

\* The offset of local time from UTC at instant t.
OffsetAt(zone, t) ==
    zone.std + (IF zone.delta # 0 /\ t >= zone.dstAt THEN zone.delta ELSE 0)

\* LocalTime(t): the local wall-clock time of instant t.
LocalTime(zone, t) == t + OffsetAt(zone, t)

\* UTC(wall): the instant of a local wall-clock time; of two instants the
\* earlier, and for a wall-clock time skipped by the change of offset the
\* offset before the change is used.
FromLocal(zone, wall) ==
    LET before == wall - zone.std
        after == wall - (zone.std + zone.delta)
    IN  IF zone.delta = 0 \/ before < zone.dstAt THEN before
        ELSE IF after >= zone.dstAt THEN after
        ELSE before

\* date.setDate(date.getDate() + days): the local date moves, the local time
\* of day stays.
AddLocalDays(zone, t, days) ==
    FromLocal(zone, LocalTime(zone, t) + days * HoursPerDay)

\* date.setHours(0, 0, 0, 0): midnight of the local date.
LocalMidnight(zone, t) ==
    FromLocal(zone, (LocalTime(zone, t) \div HoursPerDay) * HoursPerDay)

\* date.setUTCHours(0, 0, 0, 0): midnight of the UTC date.
UTCMidnight(t) == (t \div HoursPerDay) * HoursPerDay

\* date.toISOString().split('T')[0]: the UTC date of the instant.
ISODate(t) == t \div HoursPerDay

\* new Date('YYYY-MM-DD'): 00:00 UTC of that date.
ParseDate(day) == day * HoursPerDay

(***************************************************************************)
(*                      lib/sm2.ts : calculateSM2                          *)
(***************************************************************************)

MinEaseFactor == 130
MaxEaseFactor == 250
MaxIntervalDays == 365
MinIntervalDays == 1
SecondInterval == 6
PassingQuality == 3
MaxQuality == 5
DefaultEaseFactor == 250
DefaultInterval == 1

\* Bounds of the inputs drawn for the scheduler.
QualitySlack == 2     \* qualities range over -QualitySlack .. MaxQuality + QualitySlack
EaseSlack == 6        \* eases range over MinEaseFactor - EaseSlack .. MaxEaseFactor + EaseSlack
MaxIntervalIn == 12   \* small prior intervals 0 .. MaxIntervalIn
MaxRepsIn == 3        \* prior repetition counts 0 .. MaxRepsIn
MaxReps == 5          \* a review chain is followed while repetitions < MaxReps

NoResult == [none |-> TRUE]

\* The pairs <<interval, ease>> (ease in hundredths, ease 1.00..3.00, interval
\* 0..400) whose exact product ends in .5 but whose IEEE-754 double product
\* currentInterval * currentEaseFactor lies just below it (25 * 2.3 is
\* 57.49999999999999), so that Math.round returns the lower integer.
FloatBelowHalf ==
    { <<50, 113>>, <<150, 113>>, <<350, 113>>, <<25, 114>>, <<75, 114>>, <<175, 114>>,
      <<325, 114>>, <<375, 114>>, <<50, 115>>, <<90, 115>>, <<110, 115>>, <<170, 115>>,
      <<190, 115>>, <<210, 115>>, <<330, 115>>, <<350, 115>>, <<370, 115>>, <<390, 115>>,
      <<75, 138>>, <<175, 138>>, <<275, 138>>, <<325, 138>>, <<150, 139>>, <<350, 139>>,
      <<150, 163>>, <<50, 201>>, <<150, 201>>, <<250, 201>>, <<350, 201>>, <<50, 203>>,
      <<150, 203>>, <<250, 203>>, <<350, 203>>, <<30, 205>>, <<50, 205>>, <<90, 205>>,
      <<110, 205>>, <<170, 205>>, <<190, 205>>, <<210, 205>>, <<230, 205>>, <<330, 205>>,
      <<350, 205>>, <<370, 205>>, <<390, 205>>, <<50, 207>>, <<25, 226>>, <<75, 226>>,
      <<175, 226>>, <<225, 226>>, <<275, 226>>, <<325, 226>>, <<375, 226>>, <<25, 230>>,
      <<45, 230>>, <<55, 230>>, <<85, 230>>, <<95, 230>>, <<105, 230>>, <<165, 230>>,
      <<175, 230>>, <<185, 230>>, <<195, 230>>, <<205, 230>>, <<215, 230>>, <<325, 230>>,
      <<335, 230>>, <<345, 230>>, <<355, 230>>, <<365, 230>>, <<375, 230>>, <<385, 230>>,
      <<395, 230>>, <<50, 251>>, <<150, 251>>, <<350, 251>>, <<50, 253>>, <<150, 253>>,
      <<350, 253>>, <<50, 255>>, <<90, 255>>, <<170, 255>>, <<190, 255>>, <<330, 255>>,
      <<350, 255>>, <<370, 255>>, <<390, 255>>, <<75, 278>>, <<175, 278>>, <<325, 278>> }

\* Math.round(currentInterval * currentEaseFactor): round half up of the double
\* product.
RoundProduct(currentInterval, currentEaseFactor) ==
    ((currentInterval * currentEaseFactor + 50) \div 100)
        - (IF <<currentInterval, currentEaseFactor>> \in FloatBelowHalf THEN 1 ELSE 0)

\* Faulty variant: the quality is used as given
ValidateQuality_NoClamp(qualityScore) == qualityScore

\* FIX #13: a quality outside 0..5 is clamped into it.
ValidateQuality(qualityScore) ==
    IF qualityScore < 0 \/ qualityScore > MaxQuality
    THEN Max(0, Min(MaxQuality, qualityScore))
    ELSE qualityScore

\* Faulty variant: a failure resets the repetitions but keeps the interval
Reschedule_KeepInterval(q, currentEaseFactor, currentInterval, currentRepetitions) ==
    IF q < PassingQuality
    THEN [interval |-> currentInterval, repetitions |-> 0]
    ELSE [interval |-> IF currentRepetitions = 0 THEN MinIntervalDays
                       ELSE IF currentRepetitions = 1 THEN SecondInterval
                       ELSE RoundProduct(currentInterval, currentEaseFactor),
          repetitions |-> currentRepetitions + 1]

\* Faulty variant: the interval of a later review is multiplied by the newly computed ease
Reschedule_NewEase(q, currentEaseFactor, currentInterval, currentRepetitions) ==
    IF q < PassingQuality
    THEN [interval |-> MinIntervalDays, repetitions |-> 0]
    ELSE [interval |-> IF currentRepetitions = 0 THEN MinIntervalDays
                       ELSE IF currentRepetitions = 1 THEN SecondInterval
                       ELSE RoundProduct(currentInterval,
                                Max(MinEaseFactor, Min(MaxEaseFactor,
                                    currentEaseFactor + (10 - (5 - q) * (8 + (5 - q) * 2))))),
          repetitions |-> currentRepetitions + 1]

\* The repetition count and the raw interval: reset on a failure, else 1 day,
\* 6 days, then the prior interval times the prior ease.
Reschedule(q, currentEaseFactor, currentInterval, currentRepetitions) ==
    IF q < PassingQuality
    THEN [interval |-> MinIntervalDays, repetitions |-> 0]
    ELSE [interval |-> IF currentRepetitions = 0 THEN MinIntervalDays
                       ELSE IF currentRepetitions = 1 THEN SecondInterval
                       ELSE RoundProduct(currentInterval, currentEaseFactor),
          repetitions |-> currentRepetitions + 1]

\* Faulty variant: the ease is left alone on a failure
NewEaseFactor_OnlyOnSuccess(q, currentEaseFactor) ==
    IF q < PassingQuality THEN currentEaseFactor
    ELSE currentEaseFactor + (10 - (5 - q) * (8 + (5 - q) * 2))

\* EF' = EF + (0.1 - (5 - q) * (0.08 + (5 - q) * 0.02)), in hundredths.
NewEaseFactor(q, currentEaseFactor) ==
    currentEaseFactor + (10 - (5 - q) * (8 + (5 - q) * 2))

\* Faulty variant: only the minimum is enforced
EnforceEaseBounds_NoMax(easeFactor) ==
    IF easeFactor < MinEaseFactor THEN MinEaseFactor ELSE easeFactor

\* FIX #10: the ease is kept within 1.3 .. 2.5.
EnforceEaseBounds(easeFactor) ==
    IF easeFactor < MinEaseFactor THEN MinEaseFactor
    ELSE IF easeFactor > MaxEaseFactor THEN MaxEaseFactor
    ELSE easeFactor

\* FIX #11, #12: the interval is kept within 1 .. 365.
EnforceIntervalBounds(interval) ==
    IF interval > MaxIntervalDays THEN MaxIntervalDays
    ELSE IF interval < MinIntervalDays THEN MinIntervalDays
    ELSE interval

\* calculateSM2(qualityScore, currentEaseFactor, currentInterval,
\* currentRepetitions), called when a read of the clock gives `clock`:
\* nextReviewDate is new Date() moved by setDate(getDate() + interval).
calculateSM2(qualityScore, currentEaseFactor, currentInterval, currentRepetitions, clock) ==
    LET q == ValidateQuality(qualityScore)
        s == Reschedule(q, currentEaseFactor, currentInterval, currentRepetitions)
        easeFactor == EnforceEaseBounds(NewEaseFactor(q, currentEaseFactor))
        interval == EnforceIntervalBounds(s.interval)
    IN  [easeFactor |-> easeFactor,
         interval |-> interval,
         repetitions |-> s.repetitions,
         nextReviewDate |-> AddLocalDays(clock.zone, clock.now, interval)]

\* JavaScript's `x || d` on a number: 0 is falsy.
OrDefault(x, d) == IF x = 0 THEN d ELSE x

QualityInputs == (0 - QualitySlack) .. (MaxQuality + QualitySlack)
EaseInputs == (MinEaseFactor - EaseSlack) .. (MaxEaseFactor + EaseSlack)
IntervalInputs ==
    (0 .. MaxIntervalIn) \cup ((MaxIntervalDays - 1) .. (MaxIntervalDays + 1))
RepsInputs == 0 .. MaxRepsIn

\* `chained` tells whether the prior state was drawn (FALSE) or read back from
\* the record an earlier review wrote (TRUE).
SM2Inputs ==
    [quality : QualityInputs, ease : EaseInputs,
     interval : IntervalInputs, reps : RepsInputs, chained : {FALSE}]

\* The clock of the calls under study (noon, UTC): the properties of the
\* schedule do not read the date.
SM2Clock ==
    [now |-> today * HoursPerDay + 12, zone |-> CHOOSE z \in Zones : z.name = "UTC"]

\* The call under study is made.
CallSM2 ==
    /\ sm2Out = NoResult
    /\ sm2Out' = calculateSM2(sm2In.quality, sm2In.ease, sm2In.interval, sm2In.reps, SM2Clock)
    /\ UNCHANGED <<sm2In, cycleVars, learnVars, studyVars>>

\* updateWordProgress on the next review of the same word: the stored result
\* is the prior state of the next calculateSM2 call, read with its defaults;
\* updateWordProgress passes on only a quality in 0..5.
NextReview(qualityScore) ==
    /\ sm2Out # NoResult
    /\ sm2Out.repetitions < MaxReps
    /\ ~(qualityScore < 0 \/ qualityScore > MaxQuality)
    /\ sm2In' = [quality |-> qualityScore,
                 ease |-> OrDefault(sm2Out.easeFactor, DefaultEaseFactor),
                 interval |-> OrDefault(sm2Out.interval, DefaultInterval),
                 reps |-> OrDefault(sm2Out.repetitions, 0),
                 chained |-> TRUE]
    /\ sm2Out' = NoResult
    /\ UNCHANGED <<cycleVars, learnVars, studyVars>>

IdleCycles ==
    /\ today = 0
    /\ vocabulary = {}
    /\ cycles = <<>>
    /\ cycleWords = <<>>
    /\ catState = <<>>
    /\ calls = <<>>

IdleLearn ==
    /\ userProgress = {}
    /\ dailyStats = {}
    /\ sessions = <<>>

IdlePure ==
    /\ keyCall = <<>>
    /\ streakCall = <<>>
    /\ generation = <<>>
    /\ readClock = <<>>

IdleStudies ==
    /\ happinessIn = <<>>
    /\ happinessOut = <<>>
    /\ qualitiesIn = <<>>
    /\ avgQualityOut = <<>>
    /\ batch = <<>>
    /\ IdlePure

InitSM2 ==
    /\ sm2In \in SM2Inputs
    /\ sm2Out = NoResult
    /\ IdleCycles
    /\ IdleLearn
    /\ IdleStudies

NextSM2 ==
    \/ CallSM2
    \/ \E q \in QualityInputs : NextReview(q)

SpecSM2 == InitSM2 /\ [][NextSM2]_vars

(***************************************************************************)
(*                    Properties of the scheduler                          *)
(***************************************************************************)

Called == sm2Out # NoResult

ValidPrior(in) ==
    /\ in.ease >= MinEaseFactor /\ in.ease <= MaxEaseFactor
    /\ in.interval >= MinIntervalDays /\ in.interval <= MaxIntervalDays
    /\ in.reps >= 0

WithinBounds(r) ==
    /\ r.easeFactor >= MinEaseFactor /\ r.easeFactor <= MaxEaseFactor
    /\ r.interval >= MinIntervalDays /\ r.interval <= MaxIntervalDays

\* C5: for every quality below 3 and every prior ease, interval and repetition
\* count, calculateSM2 returns repetitions = 0 and interval = 1.
C5_FailureResets ==
    (Called /\ sm2In.quality < 3) =>
        (sm2Out.repetitions = 0 /\ sm2Out.interval = 1)

\* C5 witness: quality 2 on a word at ease 2.0, interval 10, 3 repetitions.
C5_Witness ==
    /\ Called
    /\ sm2In.quality = 2 /\ sm2In.ease = 200 /\ sm2In.interval = 10 /\ sm2In.reps = 3
    /\ sm2Out.repetitions = 0 /\ sm2Out.interval = 1 /\ sm2Out.easeFactor = 168

\* C6: for every quality in 0..5 and every prior with ease in [1.3, 2.5],
\* interval in [1, 365] and repetitions >= 0, the result has ease in
\* [1.30, 2.50] and interval in [1, 365]; and every record that a review
\* wrote and the next review reads back is again such a prior.
C6_ResultWithinBounds ==
    /\ (Called /\ sm2In.quality \in 0 .. 5 /\ ValidPrior(sm2In)) => WithinBounds(sm2Out)
    /\ sm2In.chained => ValidPrior(sm2In)

\* C6 witness: a review chain reached 4 repetitions and its next success is
\* capped at 365 days with the ease capped at 2.5.
C6_Witness ==
    /\ Called /\ sm2In.chained
    /\ sm2In.quality = 5 /\ sm2In.reps = 4 /\ sm2In.ease = 250
    /\ sm2In.interval * sm2In.ease > MaxIntervalDays * 100
    /\ sm2Out.interval = 365 /\ sm2Out.easeFactor = 250

\* C7: for every quality >= 3 the result has repetitions = prior + 1, and
\* interval 1 when that is 1, 6 when it is 2, and otherwise
\* Math.round(priorInterval * priorEase) kept within [1, 365], the product
\* taken with the prior ease.
C7_SuccessSchedule ==
    (Called /\ sm2In.quality >= 3) =>
        /\ sm2Out.repetitions = sm2In.reps + 1
        /\ sm2Out.interval =
              IF sm2In.reps + 1 = 1 THEN 1
              ELSE IF sm2In.reps + 1 = 2 THEN 6
              ELSE Max(1, Min(365, RoundProduct(sm2In.interval, sm2In.ease)))

\* C7 witness: quality 4 at ease 2.0, interval 6, 2 repetitions gives
\* interval 12 and 3 repetitions.
C7_Witness ==
    /\ Called
    /\ sm2In.quality = 4 /\ sm2In.ease = 200 /\ sm2In.interval = 6 /\ sm2In.reps = 2
    /\ sm2Out.interval = 12 /\ sm2Out.repetitions = 3

\* C8: for every quality in 0..5, failures included, the resulting ease is
\* priorEase + (0.1 - (5-q)*(0.08 + (5-q)*0.02)) clamped to [1.3, 2.5].
C8_EaseFormula ==
    (Called /\ sm2In.quality \in 0 .. 5) =>
        LET d == 5 - sm2In.quality
            raw == sm2In.ease + 10 - d * (8 + d * 2)
        IN  sm2Out.easeFactor = Max(130, Min(250, raw))

\* C8 witness: a failure (quality 1) lowers the ease 2.5 to 1.96.
C8_Witness ==
    /\ Called
    /\ sm2In.quality = 1 /\ sm2In.ease = 250
    /\ sm2Out.easeFactor = 196

\* C9: a quality below 0 gives the result of quality 0 and a quality above 5
\* the result of quality 5, and from a valid prior the result is within the
\* bounds.
C9_QualityClamped ==
    (Called /\ sm2In.quality \notin 0 .. 5) =>
        /\ sm2In.quality < 0 =>
              sm2Out = calculateSM2(0, sm2In.ease, sm2In.interval, sm2In.reps, SM2Clock)
        /\ sm2In.quality > 5 =>
              sm2Out = calculateSM2(5, sm2In.ease, sm2In.interval, sm2In.reps, SM2Clock)
        /\ ValidPrior(sm2In) => WithinBounds(sm2Out)

\* C9 witness: quality -2 at ease 2.5 lowers the ease by 0.8 as quality 0 does.
C9_Witness ==
    /\ Called
    /\ sm2In.quality = -2 /\ sm2In.ease = 250 /\ sm2In.reps = 2
    /\ sm2Out.easeFactor = 170 /\ sm2Out.repetitions = 0

(***************************************************************************)
(*                 lib/cycles.ts : the learning cycles                     *)
(*                                                                         *)
(* Every `await` of a store request is one step: the request is served     *)
(* atomically by the store and the code up to the next request runs with   *)
(* it.  Calls of different sessions (the two partners, two tabs)           *)
(* interleave at these steps.  Reads of the store succeed; the guarded     *)
(* inserts (learning_cycles, cycle_words) may fail.  The vocabulary pool   *)
(* and the users table are not written by these operations, so reads of    *)
(* them are taken together with the step before them.                      *)
(***************************************************************************)

\* Bounds of the cycle model.
NumCalls == 2      \* call slots: operations that may be in flight together
MaxCycles == 2     \* learning_cycles rows ever inserted
MaxVocab == 6      \* the seeded pool has at most MaxVocab words

WordsPerCycle == 5
CycleLengthDays == 2
RecentCycles == 3
InitialHappiness == 50
InitialHealth == 100

\* The sizes of the seeded pool: empty, less than a cycle's worth, exactly
\* a cycle's worth, and more.
VocabSizes == {0, 1, WordsPerCycle, MaxVocab}

Users == 1 .. 3
NoPartner == 0
Calls == 1 .. NumCalls

\* users.partner_id: learners 1 and 2 are linked, learner 3 learns alone.
PartnerId(userId) ==
    IF userId = 1 THEN 2 ELSE IF userId = 2 THEN 1 ELSE NoPartner

\* getCoupleId: the learner's id twice when solo, else the two ids sorted.
getCoupleId(userId, partnerId) ==
    IF partnerId = NoPartner
    THEN <<userId, userId>>
    ELSE <<Min(userId, partnerId), Max(userId, partnerId)>>

CoupleIds == { getCoupleId(u, PartnerId(u)) : u \in Users }

\* vocabulary_words.difficulty_level: several words share a level.
Difficulty(wordId) == (wordId + 1) \div 2

CycleIds == 1 .. Len(cycles)
RowsOf(coupleId) == { i \in CycleIds : cycles[i].couple_id = coupleId }
ActiveRowsOf(coupleId) == { i \in RowsOf(coupleId) : cycles[i].is_active }
WordRowsOf(cycleId) == { w \in cycleWords : w.cycle_id = cycleId }

NoInfo == [id |-> 0, cycle_number |-> 0, days_remaining |-> 0]

\* A call slot that runs no operation.
IdleCall ==
    [pc |-> "idle", op |-> "none", coupleId |-> <<0, 0>>,
     freshKey |-> FALSE, currentCycle |-> 0, localDay |-> 0,
     cycleNumber |-> 0, newCycle |-> 0,
     lastCycles |-> {}, excludeIds |-> {}, returned |-> "pending",
     error |-> "none", info |-> NoInfo]

Running(c) == calls[c].pc \notin {"idle", "done"}

\* The call returns null: the error of a request was caught and logged
\* ("read": the read of the active cycle, "insert": the insert of a row), or
\* createNewCycle threw 'No vocabulary words available' ("noWords").
ReturnNull(c, error) ==
    calls' = [calls EXCEPT ![c] =
                [IdleCall EXCEPT !.pc = "done", !.op = calls[c].op,
                                 !.coupleId = calls[c].coupleId,
                                 !.freshKey = calls[c].freshKey,
                                 !.returned = "null",
                                 !.error = error]]

\* The call returns a CycleInfo.
ReturnInfo(c, cycleId, daysRemaining) ==
    calls' = [calls EXCEPT ![c] =
                [IdleCall EXCEPT !.pc = "done", !.op = calls[c].op,
                                 !.coupleId = calls[c].coupleId,
                                 !.freshKey = calls[c].freshKey,
                                 !.returned = "cycle",
                                 !.info = [id |-> cycleId,
                                           cycle_number |-> cycles[cycleId].cycle_number,
                                           days_remaining |-> daysRemaining]]]

\* A learner's session calls checkAndCreateNewCycle or forceNewCycle; the
\* users row gives the partner and so the couple_id.  freshKey records that
\* the key had no cycle row when the call began.  (The slots are
\* interchangeable: a call takes the lowest free one.)
StartCall(c, userId, op) ==
    /\ calls[c].pc = "idle"
    /\ \A d \in Calls : d < c => calls[d].pc # "idle"
    /\ Len(cycles) + Cardinality({ d \in Calls : Running(d) }) < MaxCycles
    /\ LET coupleId == getCoupleId(userId, PartnerId(userId))
       IN  calls' = [calls EXCEPT ![c] =
                [IdleCall EXCEPT !.pc = IF op = "check" THEN "readActive"
                                        ELSE "deactivateAll",
                                 !.op = op, !.coupleId = coupleId,
                                 !.freshKey = (RowsOf(coupleId) = {})]]
    /\ UNCHANGED <<today, vocabulary, cycles, cycleWords, catState, sm2Vars, studyVars, learnVars>>

\* The local calendar day of a read of the clock.
LocalDay(clock) == LocalTime(clock.zone, clock.now) \div HoursPerDay

\* `today`: new Date() with setHours(0, 0, 0, 0).
TodayMidnight(clock) == LocalMidnight(clock.zone, clock.now)

\* `endDate`: new Date(currentCycle.end_date) with setHours(0, 0, 0, 0).
EndMidnight(cycleId, clock) ==
    LocalMidnight(clock.zone, ParseDate(cycles[cycleId].end_date))

\* isExpired: today > endDate.
IsExpired(cycleId, clock) == TodayMidnight(clock) > EndMidnight(cycleId, clock)

\* Math.ceil of a number of hours in days.
CeilDays(hours) == 0 - ((0 - hours) \div HoursPerDay)

\* days_remaining of an unexpired cycle: Math.max(0, Math.ceil(the days from
\* today to endDate)).
DaysRemaining(cycleId, clock) ==
    Max(0, CeilDays(EndMidnight(cycleId, clock) - TodayMidnight(clock)))

\* checkAndCreateNewCycle, the read of the active cycle (maybeSingle) and the
\* branch on it: more than one active row is an error of maybeSingle (null);
\* no row leads to createNewCycle(coupleId, 1); an expired row to its
\* deactivation; an unexpired row is returned.
ReadActiveCycleBranch(c, clock) ==
    /\ calls[c].pc = "readActive"
    /\ LET active == ActiveRowsOf(calls[c].coupleId)
       IN  IF Cardinality(active) > 1
           THEN ReturnNull(c, "read")
           ELSE IF active = {}
           THEN calls' = [calls EXCEPT ![c].pc = "insertCycle", ![c].cycleNumber = 1]
           ELSE LET cur == CHOOSE i \in active : TRUE
                IN  IF IsExpired(cur, clock)
                    THEN calls' = [calls EXCEPT ![c].pc = "deactivate",
                                                ![c].currentCycle = cur,
                                                ![c].localDay = LocalDay(clock)]
                    ELSE ReturnInfo(c, cur, DaysRemaining(cur, clock))

ReadActiveCycleAt(c, clock) ==
    /\ ReadActiveCycleBranch(c, clock)
    /\ UNCHANGED <<today, vocabulary, cycles, cycleWords, catState, sm2Vars, studyVars, learnVars>>

\* The read is made by any device at any time of the day.
ReadActiveCycle(c) == \E clock \in Clocks(today) : ReadActiveCycleAt(c, clock)

\* checkAndCreateNewCycle: the expired cycle is deactivated, then
\* createNewCycle(coupleId, currentCycle.cycle_number + 1).
DeactivateExpired(c) ==
    /\ calls[c].pc = "deactivate"
    /\ cycles' = [cycles EXCEPT ![calls[c].currentCycle].is_active = FALSE]
    /\ calls' = [calls EXCEPT ![c].pc = "insertCycle",
                              ![c].currentCycle = 0,
                              ![c].localDay = 0,
                              ![c].cycleNumber =
                                  cycles[calls[c].currentCycle].cycle_number + 1]
    /\ UNCHANGED <<today, vocabulary, cycleWords, catState, sm2Vars, studyVars, learnVars>>

\* forceNewCycle: every active cycle of the key is deactivated.
DeactivateAll(c) ==
    /\ calls[c].pc = "deactivateAll"
    /\ cycles' = [i \in CycleIds |->
                    IF cycles[i].couple_id = calls[c].coupleId
                    THEN [cycles[i] EXCEPT !.is_active = FALSE]
                    ELSE cycles[i]]
    /\ calls' = [calls EXCEPT ![c].pc = "readHighest"]
    /\ UNCHANGED <<today, vocabulary, cycleWords, catState, sm2Vars, studyVars, learnVars>>

\* forceNewCycle: the next number is one more than the highest cycle_number of
\* the key (0 when it has no cycle), then createNewCycle.
ReadHighest(c) ==
    /\ calls[c].pc = "readHighest"
    /\ LET rows == RowsOf(calls[c].coupleId)
           highest == IF rows = {} THEN 0
                      ELSE CHOOSE n \in { cycles[i].cycle_number : i \in rows } :
                             \A i \in rows : cycles[i].cycle_number <= n
       IN  calls' = [calls EXCEPT ![c].pc = "insertCycle",
                                  ![c].cycleNumber = highest + 1]
    /\ UNCHANGED <<today, vocabulary, cycles, cycleWords, catState, sm2Vars, studyVars, learnVars>>


(***************************************************************************)
(*                          createNewCycle                                 *)
(***************************************************************************)

\* A new learning_cycles row: startDate is new Date(), endDate is new Date()
\* moved by setDate(getDate() + 2), both stored as toISOString dates; the row
\* is active.
NewCycleRow(coupleId, cycleNumber, clock) ==
    [couple_id |-> coupleId, cycle_number |-> cycleNumber,
     start_date |-> ISODate(clock.now),
     end_date |-> ISODate(AddLocalDays(clock.zone, clock.now, CycleLengthDays)),
     is_active |-> TRUE]

\* createNewCycle: the cycle row is inserted first; a failed insert throws,
\* and the exported operation catches it and returns null.
InsertCycleAt(c, clock) ==
    /\ calls[c].pc = "insertCycle"
    /\ \E ok \in BOOLEAN :
         IF ok
         THEN /\ cycles' = Append(cycles,
                               NewCycleRow(calls[c].coupleId, calls[c].cycleNumber, clock))
              /\ calls' = [calls EXCEPT ![c].pc = "insertCat",
                                        ![c].cycleNumber = 0,
                                        ![c].newCycle = Len(cycles) + 1]
         ELSE /\ ReturnNull(c, "insert")
              /\ UNCHANGED cycles
    /\ UNCHANGED <<today, vocabulary, cycleWords, catState, sm2Vars, studyVars, learnVars>>

\* The insert is made by any device at any time of the day.
InsertCycle(c) == \E clock \in Clocks(today) : InsertCycleAt(c, clock)

\* The cat_state row that createNewCycle inserts.
NewCatRow(coupleId) ==
    [id |-> Cardinality(catState) + 1, couple_id |-> coupleId,
     happiness_level |-> InitialHappiness, health_level |-> InitialHealth,
     current_streak_days |-> 0, longest_streak_days |-> 0]

\* Faulty variant: the insert is accepted although the key has a row.
CatStateAfterInsert_NoConstraint(coupleId) == catState \cup {NewCatRow(coupleId)}

\* The cat_state table after the insert: couple_id is unique in the table,
\* so the insert for a key that has a row is rejected as a duplicate and
\* nothing changes.
CatStateAfterInsert(coupleId) ==
    IF \E r \in catState : r.couple_id = coupleId
    THEN catState
    ELSE catState \cup {NewCatRow(coupleId)}

\* createNewCycle: the cat_state row of the key is inserted; the duplicate-key
\* error of an existing row is ignored (any error is only logged).
InsertCatState(c) ==
    /\ calls[c].pc = "insertCat"
    /\ catState' = CatStateAfterInsert(calls[c].coupleId)
    /\ calls' = [calls EXCEPT ![c].pc = "lastCycles"]
    /\ UNCHANGED <<today, vocabulary, cycles, cycleWords, sm2Vars, studyVars, learnVars>>

\* The sets the store may return for "the key's cycles by cycle_number
\* descending, limit 3": rows of equal number may come in either order.
LastCyclesOf(coupleId) ==
    LET rows == RowsOf(coupleId)
    IN  { S \in SUBSET rows :
            /\ Cardinality(S) = Min(RecentCycles, Cardinality(rows))
            /\ \A i \in S, j \in rows \ S :
                 cycles[i].cycle_number >= cycles[j].cycle_number }

\* createNewCycle: the ids of the key's last 3 cycles (the inner query).
SelectLastCycles(c) ==
    /\ calls[c].pc = "lastCycles"
    /\ \E S \in LastCyclesOf(calls[c].coupleId) :
         calls' = [calls EXCEPT ![c].pc = "recentWords", ![c].lastCycles = S]
    /\ UNCHANGED <<today, vocabulary, cycles, cycleWords, catState, sm2Vars, studyVars, learnVars>>

\* createNewCycle: the word ids assigned to those cycles are the excludeIds.
SelectRecentWords(c) ==
    /\ calls[c].pc = "recentWords"
    /\ calls' = [calls EXCEPT
                   ![c].pc = "insertWords",
                   ![c].lastCycles = {},
                   ![c].excludeIds = { w.word_id :
                        w \in { x \in cycleWords : x.cycle_id \in calls[c].lastCycles } }]
    /\ UNCHANGED <<today, vocabulary, cycles, cycleWords, catState, sm2Vars, studyVars, learnVars>>

\* A set of word ids as the list the store returns it; the order among words
\* is taken ascending by id (ascending difficulty).
RECURSIVE AsList(_)
AsList(W) ==
    IF W = {} THEN <<>>
    ELSE LET w == CHOOSE x \in W : \A y \in W : x <= y
         IN  <<w>> \o AsList(W \ {w})

\* The results the store may return for "words not in excludeIds, by
\* difficulty_level ascending, limit 5": words of equal difficulty may come
\* in either order.
NewWordsOf(excludeIds) ==
    LET cand == vocabulary \ excludeIds
        Below(d) == { w \in cand : Difficulty(w) < d }
        At(d) == { w \in cand : Difficulty(w) = d }
    IN  IF Cardinality(cand) <= WordsPerCycle
        THEN {cand}
        ELSE LET last == CHOOSE d \in { Difficulty(w) : w \in cand } :
                            /\ Cardinality(Below(d)) < WordsPerCycle
                            /\ Cardinality(Below(d) \cup At(d)) >= WordsPerCycle
             IN  { Below(last) \cup T :
                     T \in { U \in SUBSET At(last) :
                               Cardinality(U) = WordsPerCycle - Cardinality(Below(last)) } }

\* The results the store may return for "any words, limit 5".
FallbackWordsOf ==
    { W \in SUBSET vocabulary :
        Cardinality(W) = Min(WordsPerCycle, Cardinality(vocabulary)) }

\* Faulty variant: no fallback, the new words are taken as they come.
WordsToInsert_NoFallback(excludeIds) == NewWordsOf(excludeIds)

\* The words createNewCycle hands to insertCycleWords: the new words when
\* there are 5 of them, else the fallback words (none: it throws).
WordsToInsert(excludeIds) ==
    { W \in NewWordsOf(excludeIds) : Cardinality(W) >= WordsPerCycle }
    \cup (IF \E W \in NewWordsOf(excludeIds) : Cardinality(W) < WordsPerCycle
          THEN FallbackWordsOf ELSE {})

\* insertCycleWords: one row per word, position = index + 1.
CycleWordRows(cycleId, words) ==
    { [cycle_id |-> cycleId, word_id |-> words[i], position |-> i] :
        i \in 1 .. Len(words) }

\* createNewCycle: the words are chosen and inserted.  With no word at all
\* it throws; a failed insert throws; both leave the cycle row and make the
\* exported operation return null.  Else the new cycle is returned with
\* days_remaining 2.
InsertCycleWords(c) ==
    /\ calls[c].pc = "insertWords"
    /\ \E W \in WordsToInsert(calls[c].excludeIds), ok \in BOOLEAN :
         IF W # {} /\ ok
         THEN /\ cycleWords' = cycleWords \cup CycleWordRows(calls[c].newCycle, AsList(W))
              /\ ReturnInfo(c, calls[c].newCycle, CycleLengthDays)
         ELSE /\ ReturnNull(c, IF W = {} THEN "noWords" ELSE "insert")
              /\ UNCHANGED cycleWords
    /\ UNCHANGED <<today, vocabulary, cycles, catState, sm2Vars, studyVars, learnVars>>

\* The caller has the result; the slot is free for another call.
FinishCall(c) ==
    /\ calls[c].pc = "done"
    /\ calls' = [calls EXCEPT ![c] = IdleCall]
    /\ UNCHANGED <<today, vocabulary, cycles, cycleWords, catState, sm2Vars, studyVars, learnVars>>

\* Midnight passes.
Tick ==
    /\ today < MaxDay
    /\ today' = today + 1
    /\ UNCHANGED <<vocabulary, cycles, cycleWords, catState, calls, sm2Vars, studyVars, learnVars>>

IdleSM2 ==
    /\ sm2In = [quality |-> 0, ease |-> DefaultEaseFactor, interval |-> DefaultInterval,
                reps |-> 0, chained |-> FALSE]
    /\ sm2Out = NoResult

\* The seeded pool, no cycle yet, no call in flight.
InitCycles ==
    /\ today = 0
    /\ vocabulary \in { 1 .. n : n \in VocabSizes }
    /\ cycles = <<>>
    /\ cycleWords = {}
    /\ catState = {}
    /\ calls = [c \in Calls |-> IdleCall]
    /\ IdleSM2
    /\ IdleStudies
    /\ IdleLearn

NextCycles ==
    \/ \E c \in Calls, u \in Users, op \in {"check", "force"} : StartCall(c, u, op)
    \/ \E c \in Calls : ReadActiveCycle(c)
    \/ \E c \in Calls : DeactivateExpired(c)
    \/ \E c \in Calls : DeactivateAll(c)
    \/ \E c \in Calls : ReadHighest(c)
    \/ \E c \in Calls : InsertCycle(c)
    \/ \E c \in Calls : InsertCatState(c)
    \/ \E c \in Calls : SelectLastCycles(c)
    \/ \E c \in Calls : SelectRecentWords(c)
    \/ \E c \in Calls : InsertCycleWords(c)
    \/ \E c \in Calls : FinishCall(c)
    \/ Tick

SpecCycles == InitCycles /\ [][NextCycles]_vars

(***************************************************************************)
(*   The same operations called one at a time within one day, over more    *)
(*   cycles and a larger pool: the forced rotation of the cycles of a key  *)
(*   (no cycle expires within the day it was created).                     *)
(***************************************************************************)

MaxRotations == 4     \* learning_cycles rows ever inserted, one call at a time
RotationVocab == 20   \* the larger pool: the words of four cycles

\* The two partners of one key.
RotationUsers == { u \in Users : PartnerId(u) # NoPartner }

\* A call begins when no other call is in flight.
StartAlone(userId, op) ==
    /\ \A d \in Calls : calls[d].pc = "idle"
    /\ Len(cycles) < MaxRotations
    /\ LET coupleId == getCoupleId(userId, PartnerId(userId))
       IN  calls' = [calls EXCEPT ![1] =
                [IdleCall EXCEPT !.pc = IF op = "check" THEN "readActive"
                                        ELSE "deactivateAll",
                                 !.op = op, !.coupleId = coupleId,
                                 !.freshKey = (RowsOf(coupleId) = {})]]
    /\ UNCHANGED <<today, vocabulary, cycles, cycleWords, catState, sm2Vars, studyVars, learnVars>>

InitRotation ==
    /\ today = 0
    /\ vocabulary = 1 .. RotationVocab
    /\ cycles = <<>>
    /\ cycleWords = {}
    /\ catState = {}
    /\ calls = [c \in Calls |-> IdleCall]
    /\ IdleSM2
    /\ IdleStudies
    /\ IdleLearn

NextRotation ==
    \/ \E u \in RotationUsers, op \in {"check", "force"} : StartAlone(u, op)
    \/ ReadActiveCycle(1)
    \/ DeactivateAll(1)
    \/ ReadHighest(1)
    \/ InsertCycle(1)
    \/ InsertCatState(1)
    \/ SelectLastCycles(1)
    \/ SelectRecentWords(1)
    \/ InsertCycleWords(1)
    \/ FinishCall(1)

SpecRotation == InitRotation /\ [][NextRotation]_vars


(***************************************************************************)
(*                   Properties of the learning cycles                     *)
(***************************************************************************)

Done(c) == calls[c].pc = "done"

\* The cycle row is not in the hands of a createNewCycle still running.
Settled(cycleId) == \A c \in Calls : calls[c].newCycle # cycleId

\* C1: for every pairing key, no reachable state of the store has two
\* learning_cycles rows with is_active = true, also when calls for the same
\* key interleave.
C1_AtMostOneActive ==
    \A k \in CoupleIds : Cardinality(ActiveRowsOf(k)) <= 1

\* C2: when checkAndCreateNewCycle is called twice for a pairing key that has
\* no cycle, the second call starting before the first has inserted, then
\* once both calls have returned a cycle exactly one cycle row exists for the
\* key and it has cycle_number 1.
C2_TwoCallsOneCycle ==
    \A k \in CoupleIds :
        (\A c \in Calls :
            /\ Done(c) /\ calls[c].op = "check" /\ calls[c].coupleId = k
            /\ calls[c].freshKey /\ calls[c].returned = "cycle")
        => /\ Cardinality(RowsOf(k)) = 1
           /\ \A i \in RowsOf(k) : cycles[i].cycle_number = 1

\* C3: every cycle row that exists once the operation creating it has
\* finished has exactly 5 cycle_words rows whose positions are exactly 1..5,
\* for every pool size and whether or not the word insert failed.  (Stated
\* for the non-empty pools; the empty pool is the case of C4.)
C3_FiveWordsPerCycle ==
    vocabulary # {} =>
        \A i \in CycleIds :
            Settled(i) =>
                /\ Cardinality(WordRowsOf(i)) = WordsPerCycle
                /\ { w.position : w \in WordRowsOf(i) } = 1 .. WordsPerCycle

\* C4: with a vocabulary pool of zero items, once checkAndCreateNewCycle has
\* returned null the store holds no cycle row for its key (other than a row
\* that a creation still running will take back), so no cycle was created.
C4_EmptyPoolCreatesNothing ==
    vocabulary = {} =>
        \A c \in Calls :
            (Done(c) /\ calls[c].op = "check" /\ calls[c].returned = "null") =>
                \A i \in RowsOf(calls[c].coupleId) : ~Settled(i)


\* C14: checkAndCreateNewCycle rotates (deactivates the active cycle n and
\* creates cycle n+1) only when the end_date of the cycle has passed: the
\* cycle a call is about to deactivate, no other call being in flight, has an
\* end_date before the day of the clock, by the UTC calendar or by the
\* calendar of the device; on the day equal to end_date it is not expired.
C14_RotatesOnlyAfterEndDate ==
    \A c \in Calls :
        (/\ calls[c].pc = "deactivate"
         /\ \A d \in Calls \ {c} : calls[d].pc = "idle")
        => \/ today > cycles[calls[c].currentCycle].end_date
           \/ calls[c].localDay > cycles[calls[c].currentCycle].end_date
\* C15: a checkAndCreateNewCycle call whose key has an active cycle that is
\* not expired (the day of the clock is not after its end_date, by the UTC
\* calendar and by the calendar of the device) leaves the store unchanged:
\* no step of the call creates, updates or deactivates a learning_cycles,
\* cycle_words or cat_state row.
C15_UnexpiredCycleUntouched ==
    [][\A c \in Calls :
         (/\ calls[c].op = "check"
          /\ calls'[c] # calls[c]
          /\ calls[c].currentCycle # 0
          /\ cycles[calls[c].currentCycle].is_active
          /\ today <= cycles[calls[c].currentCycle].end_date
          /\ calls[c].localDay <= cycles[calls[c].currentCycle].end_date)
         => UNCHANGED <<cycles, cycleWords, catState>>]_vars

\* The words assigned to a cycle.
WordsOfCycle(cycleId) == { w.word_id : w \in WordRowsOf(cycleId) }

\* The cycles of the key of cycle i that existed before it.
CyclesBefore(i) == { j \in RowsOf(cycles[i].couple_id) : j < i }

\* The last 3 of them: those with fewer than 3 others of the same or a
\* higher cycle_number.
LastCyclesBefore(i) ==
    { j \in CyclesBefore(i) :
        Cardinality({ m \in CyclesBefore(i) \ {j} :
                        cycles[m].cycle_number >= cycles[j].cycle_number })
          < RecentCycles }

\* C16: when the key had 3 cycles with 5 words each before a new cycle, and
\* at least 5 words of the pool are left after taking away the words of
\* those last 3 cycles, no word assigned to the new cycle was assigned to one
\* of those 3 cycles.
C16_NoRecentWordReused ==
    \A i \in CycleIds :
        LET last == LastCyclesBefore(i)
            recent == UNION { WordsOfCycle(j) : j \in last }
        IN  (/\ Cardinality(last) = RecentCycles
             /\ \A j \in last : Cardinality(WordsOfCycle(j)) = WordsPerCycle
             /\ Cardinality(vocabulary \ recent) >= WordsPerCycle)
            => WordsOfCycle(i) \cap recent = {}
\* C17: when createNewCycle finds fewer than 5 words left after the
\* exclusion and the pool is not empty, it does not give up: unless the
\* insert of the rows itself fails in the store, the call returns the new
\* cycle, and the cycle has got min(5, size of the pool) distinct words of
\* the whole pool (recently used ones allowed) at positions 1, 2, ..:
\* exactly 5 when the pool has at least 5 words.
C17_FallbackStillCreates ==
    [][\A c \in Calls :
         (/\ calls[c].pc = "insertWords"
          /\ calls'[c] # calls[c]
          /\ vocabulary # {}
          /\ Cardinality(vocabulary \ calls[c].excludeIds) < WordsPerCycle)
         => \/ /\ calls'[c].returned = "null"
               /\ calls'[c].error = "insert"
               /\ cycleWords' = cycleWords
            \/ LET new == cycleWords' \ cycleWords
               IN  /\ calls'[c].returned = "cycle"
                   /\ calls'[c].info.id = calls[c].newCycle
                   /\ \A w \in new : /\ w.cycle_id = calls[c].newCycle
                                     /\ w.word_id \in vocabulary
                   /\ Cardinality(new) = Min(WordsPerCycle, Cardinality(vocabulary))
                   /\ Cardinality({ w.word_id : w \in new }) = Cardinality(new)
                   /\ { w.position : w \in new } = 1 .. Cardinality(new)]_vars

\* C17 witness: with a pool of 6 words the second cycle of a key, for which
\* one word is left after the exclusion, was created with 5 words, 4 of them
\* words of the first cycle, and not the 5 easiest of the pool.
C17_Witness ==
    /\ Cardinality(vocabulary) = MaxVocab
    /\ \E c \in Calls :
         /\ Done(c) /\ calls[c].returned = "cycle"
         /\ calls[c].info.cycle_number = 2
         /\ Cardinality(WordsOfCycle(calls[c].info.id)) = WordsPerCycle
         /\ 1 \notin WordsOfCycle(calls[c].info.id)
         /\ \E j \in CyclesBefore(calls[c].info.id) :
              /\ Cardinality(WordsOfCycle(j)) = WordsPerCycle
              /\ Cardinality(WordsOfCycle(j) \cap WordsOfCycle(calls[c].info.id))
                   = WordsPerCycle - 1

\* The cat_state rows of a key.
CatRowsOf(coupleId) == { r \in catState : r.couple_id = coupleId }

C19_ForceLeavesOneActive ==
    [][\A c \in Calls :
         (/\ calls[c].op = "force"
          /\ calls[c].pc = "insertWords"
          /\ calls'[c].returned = "cycle"
          /\ cycles[calls[c].newCycle].is_active)
         => /\ ActiveRowsOf(calls[c].coupleId)' = {calls[c].newCycle}
            /\ \A j \in RowsOf(calls[c].coupleId) \ {calls[c].newCycle} :
                 cycles[j].cycle_number < cycles[calls[c].newCycle].cycle_number]_vars


(***************************************************************************)
(*        lib/learning.ts and the learn page: sessions and progress        *)
(***************************************************************************)

NumSessions == 2     \* learn pages that may be open at the same time
LearnVocab == 1      \* the pool of the sessions: every cycle holds all of it
MaxReviews == 2      \* activities are answered while fewer reviews are recorded
MaxSaves == 2        \* handleComplete calls of one page that are saving
MaxSwitches == 1     \* shuffles sampled: the word changes at most so often

DailyGoal == 5

Sessions == 1 .. NumSessions

\* The page of the specifications that follow one page at a time.
SinglePage == { s \in Sessions : \A t \in Sessions : s <= t }

\* The learner of the sessions: one who has a partner.
LearnUsers == { u \in Users : PartnerId(u) # NoPartner /\ u < PartnerId(u) }

\* The hours of the day at which the pages read the clock: midnight UTC and
\* noon.
SessionHours == { h \in HoursOfDay : h <= 12 }

\* The devices of the sessions.
LearnZones == { z \in Zones : z.name \in {"UTC", "Europe/Paris"} }

\* The qualities that activities report here: 0 (a skipped sentence) and 5
\* (a first-try answer).
SessionQualities == {0, MaxQuality}

RECURSIVE SumSeq(_)
SumSeq(q) == IF q = <<>> THEN 0 ELSE Head(q) + SumSeq(Tail(q))

\* Faulty variant: a mean that ends in one half is rounded down.
AvgQuality_HalfDown(qualities) ==
    (2 * SumSeq(qualities) + Len(qualities) - 1) \div (2 * Len(qualities))

\* Math.round(sum / length) of non-negative qualities: halves go up.
AvgQuality(qualities) ==
    (2 * SumSeq(qualities) + Len(qualities)) \div (2 * Len(qualities))

\* getCycleWords: the word ids of the cycle ordered by position.
getCycleWords(cycleId) ==
    LET rows == WordRowsOf(cycleId)
        n == Cardinality(rows)
    IN  [i \in 1 .. n |-> (CHOOSE r \in rows : r.position = i).word_id]

SeqToSet(q) == { q[i] : i \in 1 .. Len(q) }

\* Faulty variant: the rows of the learner's other cycles are read as well.
getUserProgressForWords_AnyCycle(userId, cycleId, wordIds) ==
    { r \in userProgress : r.user_id = userId /\ r.word_id \in wordIds }

\* getUserProgressForWords: the rows of the learner in the cycle for the
\* words.
getUserProgressForWords(userId, cycleId, wordIds) ==
    { r \in userProgress :
        r.user_id = userId /\ r.cycle_id = cycleId /\ r.word_id \in wordIds }

\* progress.find(p => p.word_id === word.id): the first row of the word in
\* the order the store returned the rows, any of them when there are several.
FindProgress(progress, wordId) == { r \in progress : r.word_id = wordId }

\* isDueForReview: both dates are set to midnight UTC and compared.
isDueForReview(nextReviewDate, clock) ==
    UTCMidnight(ParseDate(nextReviewDate)) <= UTCMidnight(clock.now)

\* The filter of getWordsForReview for given choices of the rows found:
\* found[w] is the row that progress.find returns for word w.
IsDueWord(progress, found, wordId, clock) ==
    \/ FindProgress(progress, wordId) = {}
    \/ isDueForReview(found[wordId].next_review_date, clock)

\* The lists getWordsForReview may return from the cycle's words and the
\* progress rows read.
DueWordLists(words, progress, clock) ==
    LET W == SeqToSet(words)
        Founds == { f \in [W -> progress \cup {[word_id |-> 0]}] :
                      \A w \in W : IF FindProgress(progress, w) = {}
                                   THEN f[w].word_id = 0
                                   ELSE f[w] \in FindProgress(progress, w) }
    IN  { SelectSeq(words, LAMBDA w : IsDueWord(progress, f, w, clock)) : f \in Founds }


\* selectModesForWord that gives 3 modes to words never repeated only.
ModeCount_NewOnly(repetition) == IF repetition < 1 THEN 3 ELSE 2

\* selectModesForWord: 3 modes for a word of repetition <= 1, else 2.
ModeCount(repetition) == IF repetition <= 1 THEN 3 ELSE 2

\* The number of places where a list passes from one word to another.
Switches(list) ==
    Cardinality({ i \in 1 .. Len(list) - 1 : list[i] # list[i + 1] })

\* generateAndShuffleActivities, each activity taken as its word: the lists
\* with ModeCount activities of every word, in the orders shuffleArray may
\* give; the sessions here take the orders of at most MaxSwitches switches.
ActivityLists(words, repetition) ==
    LET W == SeqToSet(words)
        n == SumSeq([i \in 1 .. Len(words) |-> ModeCount(repetition[words[i]])])
    IN  { list \in [1 .. n -> W] :
            /\ \A w \in W :
                 Cardinality({ i \in 1 .. n : list[i] = w }) = ModeCount(repetition[w])
            /\ Switches(list) <= MaxSwitches }

\* Object.keys(updatedQualities) when every activity has been completed: the
\* words in the order of their first activity.
KeysOf(activities) ==
    SelectSeq([i \in 1 .. Len(activities) |->
                 IF \E j \in 1 .. i - 1 : activities[j] = activities[i]
                 THEN 0 ELSE activities[i]],
              LAMBDA w : w # 0)

UTCZone == CHOOSE z \in Zones : z.name = "UTC"

\* A page that is not open.
IdleSession ==
    [pc |-> "closed", userId |-> 0, zone |-> UTCZone, cycleId |-> 0,
     words |-> <<>>, dueWords |-> <<>>, allWords |-> <<>>, activities |-> <<>>,
     currentActivityIndex |-> 0, activitiesCompleted |-> 0,
     wordQualities |-> <<>>, completed |-> FALSE, saves |-> <<>>]

\* The clock of the page's device at some hour of the day.
SessionClocks(s) ==
    { [now |-> today * HoursPerDay + h, zone |-> sessions[s].zone] : h \in SessionHours }

\* The reviews that the store has recorded: the larger of the sum of
\* times_reviewed and the sum of words_reviewed.
RECURSIVE TimesReviewedIn(_)
TimesReviewedIn(rows) ==
    IF rows = {} THEN 0
    ELSE LET r == CHOOSE x \in rows : TRUE
         IN  r.times_reviewed + TimesReviewedIn(rows \ {r})

RECURSIVE WordsReviewedIn(_)
WordsReviewedIn(rows) ==
    IF rows = {} THEN 0
    ELSE LET r == CHOOSE x \in rows : TRUE
         IN  r.words_reviewed + WordsReviewedIn(rows \ {r})

ReviewsRecorded == Max(TimesReviewedIn(userProgress), WordsReviewedIn(dailyStats))

\* loadLearningSession begins: the learner opens the learn page on a device;
\* the user and the profile are read and checkAndCreateNewCycle is called.
LoadSession(s, userId, zone) ==
    /\ sessions[s].pc = "closed"
    /\ calls[s].pc = "idle"
    /\ sessions' = [sessions EXCEPT ![s] =
                      [IdleSession EXCEPT !.pc = "cycle", !.userId = userId,
                                          !.zone = zone]]
    /\ LET coupleId == getCoupleId(userId, PartnerId(userId))
       IN  calls' = [calls EXCEPT ![s] =
                       [IdleCall EXCEPT !.pc = "readActive", !.op = "check",
                                        !.coupleId = coupleId,
                                        !.freshKey = (RowsOf(coupleId) = {})]]
    /\ UNCHANGED <<today, vocabulary, cycles, cycleWords, catState, sm2Vars, studyVars,
                   userProgress, dailyStats>>

\* loadLearningSession, after checkAndCreateNewCycle: null is an alert and a
\* redirect to the dashboard; else cycleId is set.
GotCycle(s) ==
    /\ sessions[s].pc = "cycle"
    /\ calls[s].pc = "done"
    /\ sessions' = [sessions EXCEPT ![s] =
                      IF calls[s].returned = "null" THEN IdleSession
                      ELSE [@ EXCEPT !.pc = "reviewWords",
                                     !.cycleId = calls[s].info.id]]
    /\ calls' = [calls EXCEPT ![s] = IdleCall]
    /\ UNCHANGED <<today, vocabulary, cycles, cycleWords, catState, sm2Vars, studyVars,
                   userProgress, dailyStats>>

\* getWordsForReview: the words of the cycle are read; with no word it
\* returns [] and the page goes on to the full word set.
GetReviewWords(s) ==
    /\ sessions[s].pc = "reviewWords"
    /\ LET words == getCycleWords(sessions[s].cycleId)
       IN  sessions' = [sessions EXCEPT
                          ![s].words = words,
                          ![s].pc = IF words = <<>> THEN "allWords"
                                    ELSE "reviewProgress"]
    /\ UNCHANGED <<cycleVars, sm2Vars, studyVars, userProgress, dailyStats>>

\* getWordsForReview: the progress rows are read and the words filtered; an
\* empty result sends the page to the full word set.
GetReviewProgress(s) ==
    /\ sessions[s].pc = "reviewProgress"
    /\ LET progress == getUserProgressForWords(sessions[s].userId, sessions[s].cycleId,
                                               SeqToSet(sessions[s].words))
       IN  \E clock \in SessionClocks(s) :
             \E due \in DueWordLists(sessions[s].words, progress, clock) :
               sessions' = [sessions EXCEPT
                              ![s].words = <<>>,
                              ![s].dueWords = due,
                              ![s].pc = IF due = <<>> THEN "allWords"
                                        ELSE "sessionProgress"]
    /\ UNCHANGED <<cycleVars, sm2Vars, studyVars, userProgress, dailyStats>>

\* loadLearningSession with no word due: the full word set of the cycle.
FallbackWords(cycleId) == getCycleWords(cycleId)

\* loadLearningSession, no word due: dueWords = getCycleWords(cycle.id); if
\* that is empty as well the page shows the completed screen.
GetAllWords(s) ==
    /\ sessions[s].pc = "allWords"
    /\ LET words == FallbackWords(sessions[s].cycleId)
       IN  sessions' = [sessions EXCEPT
                          ![s].words = <<>>,
                          ![s].dueWords = words,
                          ![s].completed = (words = <<>>),
                          ![s].pc = IF words = <<>> THEN "completed"
                                    ELSE "sessionProgress"]
    /\ UNCHANGED <<cycleVars, sm2Vars, studyVars, userProgress, dailyStats>>

\* loadLearningSession: the progress of the due words gives each word's
\* repetition (0 without a row), kept in allWords, and the activities are
\* generated.
GetSessionProgress(s) ==
    /\ sessions[s].pc = "sessionProgress"
    /\ LET W == SeqToSet(sessions[s].dueWords)
           progress == getUserProgressForWords(sessions[s].userId,
                                               sessions[s].cycleId, W)
           Repetitions == { f \in [W -> {0} \cup { r.repetitions : r \in progress }] :
                              \A w \in W :
                                IF FindProgress(progress, w) = {} THEN f[w] = 0
                                ELSE \E r \in FindProgress(progress, w) :
                                       f[w] = r.repetitions }
       IN  \E repetition \in Repetitions :
             \E list \in ActivityLists(sessions[s].dueWords, repetition) :
               sessions' = [sessions EXCEPT ![s].allWords = repetition,
                                            ![s].activities = list,
                                            ![s].pc = "active"]
    /\ UNCHANGED <<cycleVars, sm2Vars, studyVars, userProgress, dailyStats>>


\* updatedQualities: the quality is appended to the word's list.
UpdatedQualities(wordQualities, wordId, quality) ==
    [w \in DOMAIN wordQualities \cup {wordId} |->
       IF w = wordId
       THEN Append(IF w \in DOMAIN wordQualities THEN wordQualities[w] ELSE <<>>, quality)
       ELSE wordQualities[w]]

\* wordProgressUpdates: one entry per word of updatedQualities, with the
\* rounded mean of the word's qualities.
WordProgressUpdates(activities, updatedQualities) ==
    LET keys == KeysOf(activities)
    IN  [i \in 1 .. Len(keys) |->
           [wordId |-> keys[i], avgQuality |-> AvgQuality(updatedQualities[keys[i]])]]

NoColumns == [none |-> TRUE]

\* A handleComplete call that is saving: it is at the read or the write of
\* updates[index], or at the read or the write of the daily stats; existing
\* is the row read, columns what the write request sets, date the date of
\* the daily stats.
NewSave(updates) ==
    [pc |-> "read", updates |-> updates, index |-> 1, existing |-> {},
     columns |-> NoColumns, date |-> 0]

\* handleComplete that saves the progress of the word at every completion.
CompleteActivity_SaveEach(s, quality) ==
    /\ sessions[s].pc = "active"
    /\ Len(sessions[s].saves) < MaxSaves
    /\ LET ses == sessions[s]
           wordId == ses.activities[ses.currentActivityIndex + 1]
           updatedQualities == UpdatedQualities(ses.wordQualities, wordId, quality)
           shown == [ses EXCEPT !.wordQualities = updatedQualities,
                                !.activitiesCompleted = @ + 1,
                                !.saves = Append(@, NewSave(
                                    <<[wordId |-> wordId, avgQuality |-> quality]>>))]
       IN  sessions' = [sessions EXCEPT ![s] =
                          IF ses.currentActivityIndex < Len(ses.activities) - 1
                          THEN [shown EXCEPT !.currentActivityIndex = @ + 1]
                          ELSE shown]
    /\ UNCHANGED <<cycleVars, sm2Vars, studyVars, userProgress, dailyStats>>

\* handleComplete(wordId, quality): the activity on display reports a
\* quality.  Before the last activity the index moves on; on the last one
\* the updates are computed and the first updateWordProgress begins.  The
\* activity stays on display until a save ends, and may report again.
CompleteActivity(s, quality) ==
    /\ sessions[s].pc = "active"
    /\ LET ses == sessions[s]
           wordId == ses.activities[ses.currentActivityIndex + 1]
           updatedQualities == UpdatedQualities(ses.wordQualities, wordId, quality)
           shown == [ses EXCEPT !.wordQualities = updatedQualities,
                                !.activitiesCompleted = @ + 1]
       IN  IF ses.currentActivityIndex < Len(ses.activities) - 1
           THEN sessions' = [sessions EXCEPT ![s] =
                               [shown EXCEPT !.currentActivityIndex = @ + 1]]
           ELSE /\ Len(ses.saves) < MaxSaves
                /\ sessions' = [sessions EXCEPT ![s] =
                      [shown EXCEPT !.saves =
                         Append(@, NewSave(WordProgressUpdates(ses.activities,
                                                               updatedQualities)))]]
    /\ UNCHANGED <<cycleVars, sm2Vars, studyVars, userProgress, dailyStats>>

NextId(rows) == Cardinality(rows) + 1

\* The columns that updateWordProgress writes; last_reviewed_at is kept as
\* the date of the timestamp.
ProgressColumns(avgQuality, sm2Result, now, timesReviewed) ==
    [ease_factor |-> sm2Result.easeFactor,
     interval |-> sm2Result.interval,
     repetitions |-> sm2Result.repetitions,
     next_review_date |-> ISODate(sm2Result.nextReviewDate),
     quality_score |-> avgQuality,
     last_reviewed_at |-> ISODate(now),
     times_reviewed |-> timesReviewed]

ProgressRow(id, userId, wordId, cycleId, columns) ==
    [id |-> id, user_id |-> userId, word_id |-> wordId, cycle_id |-> cycleId,
     ease_factor |-> columns.ease_factor, interval |-> columns.interval,
     repetitions |-> columns.repetitions,
     next_review_date |-> columns.next_review_date,
     quality_score |-> columns.quality_score,
     last_reviewed_at |-> columns.last_reviewed_at,
     times_reviewed |-> columns.times_reviewed]

\* times_reviewed of the written row: (existing.times_reviewed || 0) + 1, or
\* 1 for a new row.
TimesReviewedAfter(existing) ==
    (IF existing = {} THEN 0 ELSE (CHOOSE r \in existing : TRUE).times_reviewed)
    + 1

\* The rows that updateWordProgress reads for a word.
ProgressRowsOf(userId, wordId, cycleId) ==
    { r \in userProgress :
        r.user_id = userId /\ r.word_id = wordId /\ r.cycle_id = cycleId }

\* maybeSingle: the row when there is one, null when there is none or more
\* than one (the error is not looked at).
MaybeSingle(rows) == IF Cardinality(rows) = 1 THEN rows ELSE {}

\* Faulty variant: the loop stops at a word whose update failed.
AfterUpdate_StopOnFailure(save, result) ==
    IF result
    THEN [save EXCEPT !.pc = IF save.index < Len(save.updates) THEN "read" ELSE "statsRead",
                      !.index = IF save.index < Len(save.updates) THEN @ + 1 ELSE @,
                      !.existing = {}, !.columns = NoColumns]
    ELSE [save EXCEPT !.pc = "statsRead", !.existing = {}, !.columns = NoColumns]

\* updateWordProgress has returned result, which handleComplete does not look
\* at: the loop goes on to the next word, or to updateDailyStats after the
\* last one.
AfterUpdate(save, result) ==
    [save EXCEPT !.pc = IF save.index < Len(save.updates) THEN "read" ELSE "statsRead",
                 !.index = IF save.index < Len(save.updates) THEN @ + 1 ELSE @,
                 !.existing = {}, !.columns = NoColumns]

\* updateWordProgress, from the row read to the write request: calculateSM2
\* is called with the row's state or the defaults, and the columns are set.
UpdateColumns(existing, qualityScore, clock) ==
    LET prior == IF existing = {}
                 THEN [ease_factor |-> 0, interval |-> 0, repetitions |-> 0]
                 ELSE CHOOSE r \in existing : TRUE
        sm2Result == calculateSM2(qualityScore,
                                  OrDefault(prior.ease_factor, DefaultEaseFactor),
                                  OrDefault(prior.interval, DefaultInterval),
                                  OrDefault(prior.repetitions, 0),
                                  clock)
    IN  ProgressColumns(qualityScore, sm2Result, clock.now, TimesReviewedAfter(existing))

\* updateWordProgress: a quality outside 0..5 returns false; else the
\* existing row is read, the clock is read and calculateSM2 is called with
\* the row's state or the defaults.
ReadExisting(s, k) ==
    /\ k \in DOMAIN sessions[s].saves
    /\ sessions[s].saves[k].pc = "read"
    /\ LET save == sessions[s].saves[k]
           update == save.updates[save.index]
           existing == MaybeSingle(ProgressRowsOf(sessions[s].userId, update.wordId,
                                                  sessions[s].cycleId))
       IN  IF update.avgQuality < 0 \/ update.avgQuality > MaxQuality
           THEN sessions' = [sessions EXCEPT ![s].saves[k] = AfterUpdate(save, FALSE)]
           ELSE \E clock \in SessionClocks(s) :
                  sessions' = [sessions EXCEPT ![s].saves[k] =
                      [save EXCEPT
                         !.pc = "write",
                         !.existing = existing,
                         !.columns = UpdateColumns(existing, update.avgQuality, clock)]]
    /\ UNCHANGED <<cycleVars, sm2Vars, studyVars, userProgress, dailyStats>>


\* user_progress after the write of updateWordProgress: the row read is
\* updated by its id, or a new row is inserted.
ProgressAfterWrite(userId, cycleId, wordId, existing, columns) ==
    IF existing # {}
    THEN { IF r.id = (CHOOSE e \in existing : TRUE).id
           THEN ProgressRow(r.id, r.user_id, r.word_id, r.cycle_id, columns)
           ELSE r : r \in userProgress }
    ELSE userProgress
         \cup {ProgressRow(NextId(userProgress), userId, wordId, cycleId, columns)}

\* updateWordProgress: the update or the insert; an error makes it return
\* false, which handleComplete does not look at.
WriteProgress(s, k) ==
    /\ k \in DOMAIN sessions[s].saves
    /\ sessions[s].saves[k].pc = "write"
    /\ LET save == sessions[s].saves[k]
           update == save.updates[save.index]
       IN  \E ok \in BOOLEAN :
             /\ userProgress' =
                   IF ok
                   THEN ProgressAfterWrite(sessions[s].userId, sessions[s].cycleId,
                                           update.wordId, save.existing, save.columns)
                   ELSE userProgress
             /\ sessions' = [sessions EXCEPT ![s].saves[k] = AfterUpdate(save, ok)]
    /\ UNCHANGED <<cycleVars, sm2Vars, studyVars, dailyStats>>


\* The daily_stats rows of a learner on a date.
StatsRowsOf(userId, date) ==
    { r \in dailyStats : r.user_id = userId /\ r.date = date }

\* updateDailyStats(userId, wordProgressUpdates.length): the date is the UTC
\* date of the clock, and the row of the date is read.
ReadDailyStats(s, k) ==
    /\ k \in DOMAIN sessions[s].saves
    /\ sessions[s].saves[k].pc = "statsRead"
    /\ \E clock \in SessionClocks(s) :
         sessions' = [sessions EXCEPT ![s].saves[k] =
            [@ EXCEPT !.pc = "statsWrite",
                      !.date = ISODate(clock.now),
                      !.existing = MaybeSingle(StatsRowsOf(sessions[s].userId,
                                                           ISODate(clock.now)))]]
    /\ UNCHANGED <<cycleVars, sm2Vars, studyVars, userProgress, dailyStats>>

\* daily_stats after the write of updateDailyStats: the row read is updated
\* by its id, adding to its counts; or a row is inserted, which the table
\* rejects when the learner has a row of that date (user_id, date is unique).
StatsAfterWrite(userId, date, existing, wordsReviewed, perfectAnswers) ==
    IF existing # {}
    THEN LET e == CHOOSE x \in existing : TRUE
         IN  { IF r.id = e.id
               THEN [r EXCEPT !.words_reviewed = e.words_reviewed + wordsReviewed,
                              !.perfect_answers = e.perfect_answers + perfectAnswers,
                              !.completed_daily_goal =
                                  (e.words_reviewed + wordsReviewed >= DailyGoal)]
               ELSE r : r \in dailyStats }
    ELSE IF StatsRowsOf(userId, date) # {}
    THEN dailyStats
    ELSE dailyStats \cup
           { [id |-> NextId(dailyStats), user_id |-> userId, date |-> date,
              words_reviewed |-> wordsReviewed, perfect_answers |-> perfectAnswers,
              completed_daily_goal |-> (wordsReviewed >= DailyGoal)] }

RemoveAt(q, k) == [i \in 1 .. Len(q) - 1 |-> IF i < k THEN q[i] ELSE q[i + 1]]

\* updateDailyStats writes, perfectAnswers left at its default 0; then
\* handleComplete sets completed and the page shows the completed screen.
WriteDailyStats(s, k) ==
    /\ k \in DOMAIN sessions[s].saves
    /\ sessions[s].saves[k].pc = "statsWrite"
    /\ LET save == sessions[s].saves[k]
       IN  /\ dailyStats' = StatsAfterWrite(sessions[s].userId, save.date,
                                            save.existing, Len(save.updates), 0)
           /\ sessions' = [sessions EXCEPT ![s].saves = RemoveAt(@, k),
                                           ![s].completed = TRUE,
                                           ![s].pc = "completed"]
    /\ UNCHANGED <<cycleVars, sm2Vars, studyVars, userProgress>>

\* The learner leaves the page or closes it: what the page holds is gone, and
\* a handleComplete call that is saving does not go on.
Leave(s) ==
    /\ sessions[s].pc \in {"active", "completed"}
    /\ sessions' = [sessions EXCEPT ![s] = IdleSession]
    /\ UNCHANGED <<cycleVars, sm2Vars, studyVars, userProgress, dailyStats>>

\* The sessions are followed over the last two days of the clock, the day
\* before the clocks of Europe/Paris change and the day they do.
LearnFirstDay == MaxDay - 1

\* The seeded pool, no cycle, no progress, no page open.
InitLearn ==
    /\ today = LearnFirstDay
    /\ vocabulary = 1 .. LearnVocab
    /\ cycles = <<>>
    /\ cycleWords = {}
    /\ catState = {}
    /\ calls = [c \in Calls |-> IdleCall]
    /\ IdleSM2
    /\ IdleStudies
    /\ userProgress = {}
    /\ dailyStats = {}
    /\ sessions = [s \in Sessions |-> IdleSession]

\* The checkAndCreateNewCycle call of page s runs in call slot s, on the
\* clock of the page's device.  No cycle expires on these clocks within the
\* two days, so the call never comes to deactivate one.
NextLearn ==
    \/ \E s \in SinglePage, u \in LearnUsers, z \in LearnZones : LoadSession(s, u, z)
    \/ \E s \in SinglePage : \E clock \in SessionClocks(s) : ReadActiveCycleAt(s, clock)
    \/ \E s \in SinglePage : \E clock \in SessionClocks(s) : InsertCycleAt(s, clock)
    \/ \E s \in SinglePage : InsertCatState(s)
    \/ \E s \in SinglePage : SelectLastCycles(s)
    \/ \E s \in SinglePage : SelectRecentWords(s)
    \/ \E s \in SinglePage : InsertCycleWords(s)
    \/ \E s \in SinglePage : GotCycle(s)
    \/ \E s \in SinglePage : GetReviewWords(s)
    \/ \E s \in SinglePage : GetReviewProgress(s)
    \/ \E s \in SinglePage : GetAllWords(s)
    \/ \E s \in SinglePage : GetSessionProgress(s)
    \/ /\ ReviewsRecorded < MaxReviews
       /\ \E s \in SinglePage, q \in SessionQualities : CompleteActivity(s, q)
    \/ \E s \in SinglePage, k \in 1 .. MaxSaves : ReadExisting(s, k)
    \/ \E s \in SinglePage, k \in 1 .. MaxSaves : WriteProgress(s, k)
    \/ \E s \in SinglePage, k \in 1 .. MaxSaves : ReadDailyStats(s, k)
    \/ \E s \in SinglePage, k \in 1 .. MaxSaves : WriteDailyStats(s, k)
    \/ \E s \in SinglePage : Leave(s)
    \/ Tick

SpecLearn == InitLearn /\ [][NextLearn]_vars



(***************************************************************************)
(*   loadLearningSession on the stores that earlier sessions leave behind  *)
(***************************************************************************)

LoadVocab == 2       \* the words of the cycles of these stores

\* The stores: the couple's first cycle has ended and its second cycle began
\* on day MaxDay; the learner opens the page on one of the next two days.
LoadDays == { MaxDay + 1, MaxDay + 2 }

LoadCycles ==
    << [couple_id |-> <<1, 2>>, cycle_number |-> 1,
        start_date |-> 0, end_date |-> CycleLengthDays, is_active |-> FALSE],
       [couple_id |-> <<1, 2>>, cycle_number |-> 2,
        start_date |-> MaxDay, end_date |-> MaxDay + CycleLengthDays,
        is_active |-> TRUE] >>

\* The rows a store may hold: of the learner in the active cycle, of the
\* learner in the first cycle, and of the partner in the active cycle.
LoadKeys ==
    { [user_id |-> u, word_id |-> w, cycle_id |-> c] :
        u \in {1, 2}, w \in 1 .. LoadVocab, c \in {1, 2} }
    \ { [user_id |-> 2, word_id |-> w, cycle_id |-> 1] : w \in 1 .. LoadVocab }

\* Their next review dates: from the first of the two days to the day after
\* the second.
LoadDates == { MaxDay + 1, MaxDay + 2, MaxDay + 3 }

\* The row that updateWordProgress writes for a first review of quality 5 at
\* noon UTC of the day before `date`.
LoadRow(key, date) ==
    LET clock == [now |-> (date - 1) * HoursPerDay + 12, zone |-> UTCZone]
        sm2Result == calculateSM2(MaxQuality, DefaultEaseFactor, DefaultInterval, 0, clock)
        id == 1 + Cardinality({ k \in LoadKeys :
                    \/ k.user_id < key.user_id
                    \/ k.user_id = key.user_id /\ k.cycle_id < key.cycle_id
                    \/ k.user_id = key.user_id /\ k.cycle_id = key.cycle_id
                       /\ k.word_id < key.word_id })
    IN  ProgressRow(id, key.user_id, key.word_id, key.cycle_id,
                    ProgressColumns(MaxQuality, sm2Result, clock.now, 1))

\* A store: each key has no row or one row; the active cycle holds the words
\* or, when the insert of its words failed, none (and then has no progress).
InitLoad ==
    /\ today \in LoadDays
    /\ vocabulary = 1 .. LoadVocab
    /\ cycles = LoadCycles
    /\ \E withWords \in BOOLEAN :
         /\ cycleWords = CycleWordRows(1, AsList(vocabulary))
                         \cup (IF withWords THEN CycleWordRows(2, AsList(vocabulary))
                               ELSE {})
         /\ \E dates \in [LoadKeys -> LoadDates \cup {0}] :
              /\ withWords \/ \A k \in LoadKeys : k.cycle_id = 2 => dates[k] = 0
              /\ userProgress = { LoadRow(k, dates[k]) : k \in { x \in LoadKeys : dates[x] # 0 } }
    /\ catState = { [id |-> 1, couple_id |-> <<1, 2>>,
                      happiness_level |-> InitialHappiness,
                      health_level |-> InitialHealth,
                      current_streak_days |-> 0, longest_streak_days |-> 0] }
    /\ calls = [c \in Calls |-> IdleCall]
    /\ IdleSM2
    /\ IdleStudies
    /\ dailyStats = {}
    /\ sessions = [s \in Sessions |-> IdleSession]

\* The learner opens the page; the active cycle has not expired, so
\* checkAndCreateNewCycle returns it.
NextLoad ==
    \/ \E s \in SinglePage, u \in LearnUsers, z \in LearnZones : LoadSession(s, u, z)
    \/ \E s \in SinglePage : \E clock \in SessionClocks(s) : ReadActiveCycleAt(s, clock)
    \/ \E s \in SinglePage : GotCycle(s)
    \/ \E s \in SinglePage : GetReviewWords(s)
    \/ \E s \in SinglePage : GetReviewProgress(s)
    \/ \E s \in SinglePage : GetAllWords(s)
    \/ \E s \in SinglePage : GetSessionProgress(s)
    \/ \E s \in SinglePage : Leave(s)

SpecLoad == InitLoad /\ [][NextLoad]_vars


(***************************************************************************)
(*            Two partners open the learn page at the same time            *)
(***************************************************************************)

\* The two learners of the couple, each on a page of their own.
Partners == { u \in Users : PartnerId(u) # NoPartner }

\* The pages are loaded and left, on one day, from the seeded pool with no
\* cycle; no activity is answered.
NextPartners ==
    \/ \E s \in Sessions, u \in Partners, z \in LearnZones : LoadSession(s, u, z)
    \/ \E s \in Sessions : \E clock \in SessionClocks(s) : ReadActiveCycleAt(s, clock)
    \/ \E s \in Sessions : \E clock \in SessionClocks(s) : InsertCycleAt(s, clock)
    \/ \E s \in Sessions : InsertCatState(s)
    \/ \E s \in Sessions : SelectLastCycles(s)
    \/ \E s \in Sessions : SelectRecentWords(s)
    \/ \E s \in Sessions : InsertCycleWords(s)
    \/ \E s \in Sessions : GotCycle(s)
    \/ \E s \in Sessions : GetReviewWords(s)
    \/ \E s \in Sessions : GetReviewProgress(s)
    \/ \E s \in Sessions : GetAllWords(s)
    \/ \E s \in Sessions : GetSessionProgress(s)
    \/ \E s \in Sessions : Leave(s)

SpecPartners == InitLearn /\ [][NextPartners]_vars

(***************************************************************************)
(*                 Properties of the sessions and progress                 *)
(***************************************************************************)

\* C12: isDueForReview compares calendar dates, so a word committed today
\* with interval >= 1 is not due again on the same day: a progress row whose
\* last review has today's date is not due at any time of today.
C12_NotDueOnCommitDay ==
    \A r \in userProgress :
      (r.last_reviewed_at = today /\ r.interval >= MinIntervalDays)
        => \A clock \in Clocks(today) : ~isDueForReview(r.next_review_date, clock)


\* C20: in one completed session the scheduler is applied once per word: on
\* the completed page, the repetitions of a word's row are one SM-2 step
\* from the repetition the page loaded (one more, or 0 after a failure), or
\* that repetition itself when the write failed.
C20_OneStepPerSession ==
    \A s \in Sessions :
      (sessions[s].completed /\ sessions[s].activities # <<>>)
        => \A w \in DOMAIN sessions[s].allWords :
             \A r \in ProgressRowsOf(sessions[s].userId, w, sessions[s].cycleId) :
               r.repetitions \in {0, sessions[s].allWords[w], sessions[s].allWords[w] + 1}


\* The words of the cycle, in their order, that have no progress row of the
\* learner in the cycle or a row whose next_review_date is today or earlier.
DueByRecords(userId, cycleId) ==
    SelectSeq(getCycleWords(cycleId),
              LAMBDA w : \/ ProgressRowsOf(userId, w, cycleId) = {}
                         \/ \E r \in ProgressRowsOf(userId, w, cycleId) :
                              r.next_review_date <= today)

\* C11: getWordsForReview returns exactly the cycle's words that have no
\* progress row of this learner in this cycle or are due today, whatever
\* rows the word has under another cycle or another learner; for a cycle
\* without words it returns none.
C11_DueWordsExact ==
    [][\A s \in Sessions :
         /\ (sessions[s].pc = "reviewProgress" /\ sessions'[s].pc # "reviewProgress")
              => sessions'[s].dueWords =
                   DueByRecords(sessions[s].userId, sessions[s].cycleId)
         /\ (sessions[s].pc = "reviewWords" /\ sessions'[s].pc = "allWords")
              => DueByRecords(sessions[s].userId, sessions[s].cycleId) = <<>>]_vars

\* getWordsForReview has returned one of the cycle's two words: a word
\* without a row in this cycle, although its row under the earlier cycle is
\* not due; the other word has a row in this cycle that is not due.
C11_Witness ==
    \E s \in Sessions : \E w \in vocabulary, v \in vocabulary :
      /\ w # v
      /\ sessions[s].pc = "sessionProgress"
      /\ sessions[s].dueWords = <<w>>
      /\ ProgressRowsOf(sessions[s].userId, w, sessions[s].cycleId) = {}
      /\ \E r \in userProgress :
           /\ r.user_id = sessions[s].userId /\ r.word_id = w
           /\ r.cycle_id # sessions[s].cycleId /\ r.next_review_date > today
      /\ \E r \in ProgressRowsOf(sessions[s].userId, v, sessions[s].cycleId) :
           r.next_review_date > today


\* The fallback of loadLearningSession: a loaded page holds the due words,
\* or all the cycle's words when none is due, with at least one activity for
\* each of them; only for a cycle without words does loading end with no
\* activity.
FallbackGivesActivities ==
    \A s \in Sessions :
      LET ses == sessions[s]
          due == DueByRecords(ses.userId, ses.cycleId)
      IN  /\ ses.pc \in {"sessionProgress", "active"}
               => /\ ses.dueWords = IF due # <<>> THEN due ELSE getCycleWords(ses.cycleId)
                  /\ ses.dueWords # <<>>
          /\ ses.pc = "active"
               => /\ Len(ses.activities) >= 1
                  /\ SeqToSet(ses.activities) = SeqToSet(ses.dueWords)
          /\ ses.pc = "completed" => WordRowsOf(ses.cycleId) = {}


\* C13: whenever the active cycle has at least one word, loadLearningSession
\* produces a session for the learner: checkAndCreateNewCycle does not come
\* back from its read of the active cycle with null while the learner's key
\* has an active cycle that holds words.
C13_ActiveCycleGivesSession ==
    \A s \in Sessions :
      (sessions[s].pc = "cycle" /\ calls[s].pc = "done" /\ calls[s].error = "read")
        => \A i \in ActiveRowsOf(calls[s].coupleId) : WordRowsOf(i) = {}


(***************************************************************************)
(*          handleComplete: the quality of a word in the session           *)
(***************************************************************************)

MaxQualities == 3    \* activity results of one word in a session

\* handleComplete: an activity of the word reports a quality, an integer of
\* 0..5, which is appended to the word's list.
ReportQuality(quality) ==
    /\ Len(qualitiesIn) < MaxQualities
    /\ qualitiesIn' = Append(qualitiesIn, quality)
    /\ avgQualityOut' = NoResult
    /\ UNCHANGED <<cycleVars, sm2Vars, pureVars, learnVars, happinessIn, happinessOut, batch>>

\* handleComplete on the last activity: the word's avgQuality is computed.
AverageQualities ==
    /\ qualitiesIn # <<>>
    /\ avgQualityOut = NoResult
    /\ avgQualityOut' = [avgQuality |-> AvgQuality(qualitiesIn)]
    /\ UNCHANGED <<cycleVars, sm2Vars, pureVars, learnVars, happinessIn, happinessOut, qualitiesIn, batch>>

InitAvg ==
    /\ qualitiesIn = <<>>
    /\ avgQualityOut = NoResult
    /\ happinessIn = <<>>
    /\ happinessOut = <<>>
    /\ batch = <<>>
    /\ IdlePure
    /\ IdleCycles
    /\ IdleSM2
    /\ IdleLearn

NextAvg ==
    \/ \E q \in 0 .. MaxQuality : ReportQuality(q)
    \/ AverageQualities

SpecAvg == InitAvg /\ [][NextAvg]_vars

\* C25: the quality passed to the scheduler for a word is the mean of the
\* word's activity qualities rounded to the nearest integer, halves up: it
\* is an integer r of 0..5 with r - 1/2 <= mean < r + 1/2.
C25_RoundedMean ==
    avgQualityOut # NoResult
      => LET n == Len(qualitiesIn)
             sum == SumSeq(qualitiesIn)
             r == avgQualityOut.avgQuality
         IN  /\ r \in 0 .. MaxQuality
             /\ 2 * n * r - n <= 2 * sum
             /\ 2 * sum < 2 * n * r + n

\* A mean that ends in one half has been rounded up: qualities 2 and 3 give
\* quality 3.
C25_Witness ==
    /\ avgQualityOut # NoResult
    /\ Len(qualitiesIn) = 2
    /\ 2 * SumSeq(qualitiesIn)
         = 2 * Len(qualitiesIn) * avgQualityOut.avgQuality - Len(qualitiesIn)
    /\ avgQualityOut.avgQuality = 3


(***************************************************************************)
(*                 lib/catHappiness.ts: the cat's happiness                *)
(***************************************************************************)

MaxWordsToday == 10  \* wordsStudiedToday of the calls: 0 .. MaxWordsToday
MaxTarget == 5       \* targetWordsPerDay of the calls: 0 .. MaxTarget

\* The streak at which the bonuses reach their caps: 30 points at 10 per 7
\* days, 15 points at 5 per 7 days.
StreakCap == 21

\* streakDays of the calls: none, part of a week, a week, the cap, beyond it.
StreakInputs == {0, 3, 7, StreakCap, StreakCap + 1}

\* The numbers of JavaScript that the computation meets: a non-negative
\* fraction num/den, Infinity or NaN.  On the inputs above the doubles round
\* as the exact fractions do.
Num(n, d) == [kind |-> "finite", num |-> n, den |-> d]
Infinity == [kind |-> "Infinity", num |-> 1, den |-> 0]
NaN == [kind |-> "NaN", num |-> 0, den |-> 0]

\* a / b of integers a, b >= 0: x/0 is Infinity, 0/0 is NaN.
Divide(a, b) == IF b # 0 THEN Num(a, b) ELSE IF a = 0 THEN NaN ELSE Infinity

\* x * k for an integer k > 0.
Times(x, k) == IF x.kind = "finite" THEN Num(x.num * k, x.den) ELSE x

Plus(x, y) ==
    IF x.kind = "NaN" \/ y.kind = "NaN" THEN NaN
    ELSE IF x.kind = "Infinity" \/ y.kind = "Infinity" THEN Infinity
    ELSE Num(x.num * y.den + y.num * x.den, x.den * y.den)

\* x <= y of numbers that are not NaN.
AtMost(x, y) ==
    \/ y.kind = "Infinity"
    \/ x.kind = "finite" /\ y.kind = "finite" /\ x.num * y.den <= y.num * x.den

\* Math.min and Math.max: NaN when an argument is NaN.
MathMin(x, y) ==
    IF x.kind = "NaN" \/ y.kind = "NaN" THEN NaN
    ELSE IF AtMost(x, y) THEN x ELSE y

MathMax(x, y) ==
    IF x.kind = "NaN" \/ y.kind = "NaN" THEN NaN
    ELSE IF AtMost(x, y) THEN y ELSE x

\* Math.round: the nearest integer, a half goes up; NaN stays NaN.
MathRound(x) ==
    IF x.kind = "finite" THEN Num((2 * x.num + x.den) \div (2 * x.den), 1) ELSE x

\* Math.abs(a - b) of integers.
AbsDiff(a, b) == IF a >= b THEN a - b ELSE b - a

\* Faulty variant: 10 points for every full week of the streak.
SoloStreakBonus_FullWeeks(user) == MathMin(Num(30, 1), Num((user.streakDays \div 7) * 10, 1))

\* The streak bonus of solo mode: Math.min(30, (streakDays / 7) * 10).
SoloStreakBonus(user) == MathMin(Num(30, 1), Times(Divide(user.streakDays, 7), 10))

\* calculateSoloHappiness.
calculateSoloHappiness(user) ==
    LET dailyProgress == Divide(user.wordsStudiedToday, user.targetWordsPerDay)
        base == MathMin(Num(60, 1), Times(dailyProgress, 60))
        withStreak == Plus(base, SoloStreakBonus(user))
        happiness == IF 2 * user.wordsStudiedToday >= user.targetWordsPerDay
                     THEN Plus(withStreak, Num(10, 1))
                     ELSE withStreak
    IN  MathRound(MathMin(Num(100, 1), MathMax(Num(0, 1), happiness)))

\* Faulty variant: the bonus is computed from the mean of the two streaks.
PartnerStreakBonus_Average(user, partner) ==
    MathMin(Num(15, 1), Times(Divide(user.streakDays + partner.streakDays, 14), 5))

\* The shared streak bonus: Math.min(15, (minStreak / 7) * 5) with minStreak
\* the smaller of the two streaks.
PartnerStreakBonus(user, partner) ==
    LET minStreak == IF user.streakDays <= partner.streakDays
                     THEN user.streakDays ELSE partner.streakDays
    IN  MathMin(Num(15, 1), Times(Divide(minStreak, 7), 5))

\* calculatePartnerHappiness.
calculatePartnerHappiness(user, partner) ==
    LET userProgressPoints ==
          Times(Divide(user.wordsStudiedToday, user.targetWordsPerDay), 40)
        partnerProgressPoints ==
          Times(Divide(partner.wordsStudiedToday, partner.targetWordsPerDay), 40)
        progress == Plus(userProgressPoints, partnerProgressPoints)
        withStreak == Plus(progress, PartnerStreakBonus(user, partner))
        progressDifference == AbsDiff(user.wordsStudiedToday, partner.wordsStudiedToday)
        happiness == IF progressDifference <= 2
                     THEN Plus(withStreak, Num(5, 1))
                     ELSE withStreak
    IN  MathRound(MathMin(Num(100, 1), MathMax(Num(0, 1), happiness)))

\* input.partner of a solo learner.
NoPartnerProgress == [absent |-> TRUE]

\* calculateCatHappiness: solo when the input has no partner.
calculateCatHappiness(input) ==
    IF input.partner = NoPartnerProgress
    THEN calculateSoloHappiness(input.user)
    ELSE calculatePartnerHappiness(input.user, input.partner)

UserProgressInputs ==
    [wordsStudiedToday : 0 .. MaxWordsToday,
     targetWordsPerDay : 0 .. MaxTarget,
     streakDays : StreakInputs]

\* The call under study is made.
CallHappiness ==
    /\ happinessOut = NoResult
    /\ happinessOut' = calculateCatHappiness(happinessIn)
    /\ UNCHANGED <<cycleVars, sm2Vars, pureVars, learnVars, happinessIn, qualitiesIn,
                   avgQualityOut, batch>>

InitHappiness ==
    /\ \E user \in UserProgressInputs :
         \E partner \in UserProgressInputs \cup {NoPartnerProgress} :
           happinessIn = [user |-> user, partner |-> partner]
    /\ happinessOut = NoResult
    /\ qualitiesIn = <<>>
    /\ avgQualityOut = <<>>
    /\ batch = <<>>
    /\ IdlePure
    /\ IdleCycles
    /\ IdleSM2
    /\ IdleLearn

SpecHappiness == InitHappiness /\ [][CallHappiness]_vars


(***************************************************************************)
(*                      Properties of the happiness                        *)
(***************************************************************************)

IsSolo == happinessIn.partner = NoPartnerProgress

\* C27: calculateCatHappiness returns an integer of 0..100 for all
\* non-negative inputs, solo and paired, a target of 0 words included.
C27_HappinessInRange ==
    happinessOut # NoResult
      => /\ happinessOut.kind = "finite"
         /\ happinessOut.den = 1
         /\ happinessOut.num \in 0 .. 100

\* C28: with a target above 0 the solo happiness r is the nearest integer,
\* halves up, to the value clamped to [0,100] of
\*   60 * min(1, words/target) + min(30, 10 * streak/7) + (10 if words >=
\*   target/2),
\* stated in units of 1/(7 * target) point; for 5 words, target 5 and a
\* streak of 7 days it is 80.
C28_SoloFormula ==
    (happinessOut # NoResult /\ IsSolo /\ happinessIn.user.targetWordsPerDay > 0)
      => LET w == happinessIn.user.wordsStudiedToday
             t == happinessIn.user.targetWordsPerDay
             d == happinessIn.user.streakDays
             points == Min(420 * t, 420 * w) + Min(210 * t, 10 * d * t)
                       + (IF 2 * w >= t THEN 70 * t ELSE 0)
             clamped == Min(700 * t, points)
             r == happinessOut.num
         IN  /\ happinessOut.kind = "finite" /\ happinessOut.den = 1
             /\ 14 * t * r - 7 * t <= 2 * clamped
             /\ 2 * clamped < 14 * t * r + 7 * t
             /\ (w = 5 /\ t = 5 /\ d = 7) => r = 80

\* The solo happiness of 5 words at target 5 with a streak of 7 days has been
\* computed: 80.
C28_Witness ==
    /\ IsSolo
    /\ happinessIn.user = [wordsStudiedToday |-> 5, targetWordsPerDay |-> 5,
                           streakDays |-> 7]
    /\ happinessOut = Num(80, 1)

\* C29: in paired happiness a learner's own ratio adds at most 40 points:
\* with targets above 0 the score is at most the rounded, clamped sum of 40,
\* the partner's own 40 * words/target, the streak bonus and the
\* synchronization bonus (in units of 1/(7 * partner's target) point).
C29_OwnShareAtMost40 ==
    (happinessOut # NoResult /\ ~IsSolo
       /\ happinessIn.user.targetWordsPerDay > 0
       /\ happinessIn.partner.targetWordsPerDay > 0)
      => LET u == happinessIn.user
             p == happinessIn.partner
             t == p.targetWordsPerDay
             bound == 280 * t + 280 * p.wordsStudiedToday
                      + Min(105 * t, 5 * Min(u.streakDays, p.streakDays) * t)
                      + (IF AbsDiff(u.wordsStudiedToday, p.wordsStudiedToday) <= 2
                         THEN 35 * t ELSE 0)
             clamped == Min(700 * t, bound)
         IN  happinessOut.num <= (2 * clamped + 7 * t) \div (14 * t)

\* C30: the paired score uses the smaller of the two streaks, for at most 15
\* points, and adds 5 points exactly when the word counts differ by at most
\* 2: with targets above 0 it is the nearest integer, halves up, to the
\* clamped sum of the two progress terms, min(15, 5 * min(streaks)/7) and
\* that bonus (in units of 1/(7 * both targets) point); and the score is the
\* same with the two learners exchanged, whatever the targets.
C30_PairedBonuses ==
    (happinessOut # NoResult /\ ~IsSolo)
      => LET u == happinessIn.user
             p == happinessIn.partner
             tu == u.targetWordsPerDay
             tp == p.targetWordsPerDay
             unit == 7 * tu * tp
             streak == Min(15 * unit, 5 * Min(u.streakDays, p.streakDays) * tu * tp)
             sync == IF AbsDiff(u.wordsStudiedToday, p.wordsStudiedToday) <= 2
                     THEN 5 * unit ELSE 0
             points == 280 * u.wordsStudiedToday * tp + 280 * p.wordsStudiedToday * tu
                       + streak + sync
             clamped == Min(100 * unit, points)
             r == happinessOut.num
         IN  /\ happinessOut = calculateCatHappiness([user |-> p, partner |-> u])
             /\ (tu > 0 /\ tp > 0)
                  => /\ happinessOut.kind = "finite" /\ happinessOut.den = 1
                     /\ 2 * unit * r - unit <= 2 * clamped
                     /\ 2 * clamped < 2 * unit * r + unit

\* A paired score below 100 has been computed for learners whose streaks
\* differ, the smaller one short of the cap, and whose word counts differ by
\* exactly 2.
C30_Witness ==
    /\ happinessOut # NoResult
    /\ ~IsSolo
    /\ happinessIn.user.targetWordsPerDay > 0
    /\ happinessIn.partner.targetWordsPerDay > 0
    /\ happinessIn.user.streakDays > happinessIn.partner.streakDays
    /\ happinessIn.partner.streakDays \in 1 .. StreakCap - 1
    /\ happinessIn.user.wordsStudiedToday = happinessIn.partner.wordsStudiedToday + 2
    /\ happinessOut.num < 100


(***************************************************************************)
(*                    Properties of the session commit                     *)
(***************************************************************************)

\* The activity results of quality 5 that a page holds.
PerfectResults(wordQualities) ==
    Cardinality({ p \in UNION { { <<w, i>> : i \in DOMAIN wordQualities[w] } :
                                w \in DOMAIN wordQualities } :
                    wordQualities[p[1]][p[2]] = MaxQuality })

\* The sums of a column over the rows of a learner and a date.
RECURSIVE PerfectAnswersIn(_)
PerfectAnswersIn(rows) ==
    IF rows = {} THEN 0
    ELSE LET r == CHOOSE x \in rows : TRUE
         IN  r.perfect_answers + PerfectAnswersIn(rows \ {r})

StatsOf(rows, userId, date) == { r \in rows : r.user_id = userId /\ r.date = date }

\* C22: a session commit increases perfect_answers of the day's row by the
\* number of activity results of quality 5 in the session: the step that
\* ends a commit leaves the learner's row of the commit's date with that
\* many more perfect answers.
C22_PerfectAnswersCounted ==
    [][\A s \in Sessions :
         (sessions[s].pc = "active" /\ sessions'[s].pc = "completed")
           => \E k \in DOMAIN sessions[s].saves :
                LET save == sessions[s].saves[k]
                IN  /\ save.pc = "statsWrite"
                    /\ PerfectAnswersIn(StatsOf(dailyStats', sessions[s].userId, save.date))
                         = PerfectAnswersIn(StatsOf(dailyStats, sessions[s].userId, save.date))
                           + PerfectResults(sessions[s].wordQualities)]_vars


(***************************************************************************)
(*       One learner on two devices: sessions that commit on one day       *)
(***************************************************************************)

\* The store: the couple's first cycle began today and holds both words.
CommitCycles ==
    << [couple_id |-> <<1, 2>>, cycle_number |-> 1, start_date |-> LearnFirstDay,
        end_date |-> LearnFirstDay + CycleLengthDays, is_active |-> TRUE] >>

\* The row that updateWordProgress wrote for a first review of quality 5 of
\* the word at noon UTC today.
CommitRow(wordId) ==
    LET clock == [now |-> LearnFirstDay * HoursPerDay + 12, zone |-> UTCZone]
        sm2Result == calculateSM2(MaxQuality, DefaultEaseFactor, DefaultInterval, 0, clock)
    IN  ProgressRow(wordId, 1, wordId, 1,
                    ProgressColumns(MaxQuality, sm2Result, clock.now, 1))

\* The words reviewed earlier today, by the sessions that left the store.
EarlierReviews == 0 .. DailyGoal - 1

\* A store that earlier sessions of the day left: some of the words have a
\* row of the learner, and the day's row counts the words reviewed so far.
CommitStore ==
    /\ today = LearnFirstDay
    /\ vocabulary = 1 .. LoadVocab
    /\ cycles = CommitCycles
    /\ cycleWords = CycleWordRows(1, AsList(vocabulary))
    /\ catState = { [id |-> 1, couple_id |-> <<1, 2>>,
                      happiness_level |-> InitialHappiness,
                      health_level |-> InitialHealth,
                      current_streak_days |-> 0, longest_streak_days |-> 0] }
    /\ calls = [c \in Calls |-> IdleCall]
    /\ \E reviewed \in SUBSET vocabulary :
         userProgress = { CommitRow(w) : w \in reviewed }
    /\ \E n \in EarlierReviews :
         dailyStats = IF n = 0 THEN {}
                      ELSE { [id |-> 1, user_id |-> 1, date |-> LearnFirstDay,
                              words_reviewed |-> n, perfect_answers |-> 0,
                              completed_daily_goal |-> FALSE] }

InitCommit ==
    /\ CommitStore
    /\ sessions = [s \in Sessions |-> IdleSession]
    /\ IdleSM2
    /\ IdleStudies

\* The learner opens the page on each device once and answers every activity
\* at the first try; each activity reports once.
NextCommit ==
    \/ \E s \in Sessions, u \in LearnUsers : LoadSession(s, u, UTCZone)
    \/ \E s \in Sessions : \E clock \in SessionClocks(s) : ReadActiveCycleAt(s, clock)
    \/ \E s \in Sessions : GotCycle(s)
    \/ \E s \in Sessions : GetReviewWords(s)
    \/ \E s \in Sessions : GetReviewProgress(s)
    \/ \E s \in Sessions : GetAllWords(s)
    \/ \E s \in Sessions : GetSessionProgress(s)
    \/ \E s \in Sessions : sessions[s].saves = <<>> /\ CompleteActivity(s, MaxQuality)
    \/ \E s \in Sessions, k \in 1 .. MaxSaves : ReadExisting(s, k)
    \/ \E s \in Sessions, k \in 1 .. MaxSaves : WriteProgress(s, k)
    \/ \E s \in Sessions, k \in 1 .. MaxSaves : ReadDailyStats(s, k)
    \/ \E s \in Sessions, k \in 1 .. MaxSaves : WriteDailyStats(s, k)

SpecCommit == InitCommit /\ [][NextCommit]_vars


(***************************************************************************)
(*               Properties of commits that may overlap                    *)
(***************************************************************************)

\* C21: a session commit with N distinct words makes N progress updates and
\* increases words_reviewed of the day's row by exactly N, whatever the
\* number of activities, and the increases of the day's sessions add up: the
\* step that ends a commit leaves the learner's row of the commit's date with
\* N more words reviewed than the row had before the step.
C21_WordsReviewedAddUp ==
    [][\A s \in Sessions :
         (sessions[s].pc = "active" /\ sessions'[s].pc = "completed")
           => \E k \in DOMAIN sessions[s].saves :
                LET save == sessions[s].saves[k]
                    N == Cardinality(SeqToSet(sessions[s].activities))
                IN  /\ save.pc = "statsWrite"
                    /\ Len(save.updates) = N
                    /\ WordsReviewedIn(StatsOf(dailyStats', sessions[s].userId, save.date))
                         = WordsReviewedIn(StatsOf(dailyStats, sessions[s].userId, save.date))
                           + N]_vars

\* C23: after every updateDailyStats call the day's row has
\* completed_daily_goal exactly when its words_reviewed is at least 5, there
\* is one row per learner and date, and within the day the flag of a row
\* never goes from true back to false.
C23_GoalFlag ==
    [][/\ \A r \in dailyStats' :
            r.completed_daily_goal <=> (r.words_reviewed >= DailyGoal)
       /\ \A r1 \in dailyStats', r2 \in dailyStats' :
            (r1.user_id = r2.user_id /\ r1.date = r2.date) => r1 = r2
       /\ \A r1 \in dailyStats, r2 \in dailyStats' :
            (r1.id = r2.id /\ r1.completed_daily_goal) => r2.completed_daily_goal]_vars

\* C26: after any sequence of session commits, overlapping ones of one
\* learner included, there is at most one progress row per learner, word and
\* cycle.
C26_OneRecordPerKey ==
    \A r1 \in userProgress, r2 \in userProgress :
      (r1.user_id = r2.user_id /\ r1.word_id = r2.word_id /\ r1.cycle_id = r2.cycle_id)
        => r1 = r2


(***************************************************************************)
(*          Writes that fail: handleComplete and the batch update          *)
(***************************************************************************)

\* No batchUpdateWordProgress call has been made.
IdleBatch ==
    [pc |-> "idle", userId |-> 0, cycleId |-> 0, wordUpdates |-> <<>>,
     items |-> <<>>, success |-> 0, failed |-> 0]

\* The arguments of the call: the updates of some words of the cycle, each
\* word once, with qualities as handleComplete computes them.
WordUpdateLists(words) ==
    { u \in UNION { [1 .. n -> [wordId : words, qualityScore : SessionQualities]] :
                    n \in 1 .. Cardinality(words) } :
        \A i \in DOMAIN u, j \in DOMAIN u : u[i].wordId = u[j].wordId => i = j }

\* batchUpdateWordProgress(userId, cycleId, wordUpdates): the counts are 0
\* and updateWordProgress is called for every update, all calls under one
\* Promise.all; each call goes on to its read.
StartBatch(userId, cycleId, wordUpdates) ==
    /\ batch.pc = "idle"
    /\ batch' = [IdleBatch EXCEPT
                   !.pc = "running", !.userId = userId, !.cycleId = cycleId,
                   !.wordUpdates = wordUpdates,
                   !.items = [i \in DOMAIN wordUpdates |->
                                [pc |-> "read", existing |-> {}, columns |-> NoColumns,
                                 error |-> FALSE]]]
    /\ UNCHANGED <<cycleVars, sm2Vars, pureVars, learnVars, happinessIn, happinessOut,
                   qualitiesIn, avgQualityOut>>

\* The callback of the map: updateWordProgress has returned result, and one
\* of the counts goes up.
Counted(b, i, result, error) ==
    [b EXCEPT !.items[i].pc = "done", !.items[i].error = error,
              !.success = IF result THEN @ + 1 ELSE @,
              !.failed = IF result THEN @ ELSE @ + 1]

\* updateWordProgress of update i without the check of its quality.
BatchRead_Unvalidated(i) ==
    /\ batch.pc = "running"
    /\ i \in DOMAIN batch.items
    /\ batch.items[i].pc = "read"
    /\ LET update == batch.wordUpdates[i]
           existing == MaybeSingle(ProgressRowsOf(batch.userId, update.wordId,
                                                  batch.cycleId))
       IN  batch' = [batch EXCEPT
                       !.items[i].pc = "write",
                       !.items[i].existing = existing,
                       !.items[i].columns =
                           UpdateColumns(existing, update.qualityScore, SM2Clock)]
    /\ UNCHANGED <<cycleVars, sm2Vars, pureVars, learnVars, happinessIn, happinessOut,
                   qualitiesIn, avgQualityOut>>

\* updateWordProgress of update i: a quality outside 0..5 returns false;
\* else the existing row is read and the columns are computed.
BatchRead(i) ==
    /\ batch.pc = "running"
    /\ i \in DOMAIN batch.items
    /\ batch.items[i].pc = "read"
    /\ LET update == batch.wordUpdates[i]
           existing == MaybeSingle(ProgressRowsOf(batch.userId, update.wordId,
                                                  batch.cycleId))
       IN  batch' = IF update.qualityScore < 0 \/ update.qualityScore > MaxQuality
                    THEN Counted(batch, i, FALSE, FALSE)
                    ELSE [batch EXCEPT
                            !.items[i].pc = "write",
                            !.items[i].existing = existing,
                            !.items[i].columns =
                                UpdateColumns(existing, update.qualityScore, SM2Clock)]
    /\ UNCHANGED <<cycleVars, sm2Vars, pureVars, learnVars, happinessIn, happinessOut,
                   qualitiesIn, avgQualityOut>>

\* updateWordProgress of update i: the update or the insert, which may fail;
\* the call returns whether it succeeded.
BatchWrite(i) ==
    /\ batch.pc = "running"
    /\ i \in DOMAIN batch.items
    /\ batch.items[i].pc = "write"
    /\ \E ok \in BOOLEAN :
         /\ userProgress' =
              IF ok
              THEN ProgressAfterWrite(batch.userId, batch.cycleId,
                                      batch.wordUpdates[i].wordId,
                                      batch.items[i].existing, batch.items[i].columns)
              ELSE userProgress
         /\ batch' = Counted([batch EXCEPT !.items[i].existing = {},
                                           !.items[i].columns = NoColumns],
                             i, ok, ~ok)
    /\ UNCHANGED <<cycleVars, sm2Vars, pureVars, dailyStats, sessions, happinessIn, happinessOut,
                   qualitiesIn, avgQualityOut>>

\* Promise.all is settled: { success, failed } is returned.
BatchReturn ==
    /\ batch.pc = "running"
    /\ \A i \in DOMAIN batch.items : batch.items[i].pc = "done"
    /\ batch' = [batch EXCEPT !.pc = "returned"]
    /\ UNCHANGED <<cycleVars, sm2Vars, pureVars, learnVars, happinessIn, happinessOut,
                   qualitiesIn, avgQualityOut>>

InitFailures ==
    /\ CommitStore
    /\ sessions = [s \in Sessions |-> IdleSession]
    /\ IdleSM2
    /\ happinessIn = <<>>
    /\ happinessOut = <<>>
    /\ qualitiesIn = <<>>
    /\ avgQualityOut = <<>>
    /\ batch = IdleBatch
    /\ IdlePure

\* One session of the learner, each activity reporting once, and one batch
\* update of the learner's words.
NextFailures ==
    \/ \E s \in SinglePage, u \in LearnUsers : LoadSession(s, u, UTCZone)
    \/ \E s \in SinglePage : \E clock \in SessionClocks(s) : ReadActiveCycleAt(s, clock)
    \/ \E s \in SinglePage : GotCycle(s)
    \/ \E s \in SinglePage : GetReviewWords(s)
    \/ \E s \in SinglePage : GetReviewProgress(s)
    \/ \E s \in SinglePage : GetAllWords(s)
    \/ \E s \in SinglePage : GetSessionProgress(s)
    \/ \E s \in SinglePage : sessions[s].saves = <<>> /\ CompleteActivity(s, MaxQuality)
    \/ \E s \in SinglePage, k \in 1 .. MaxSaves : ReadExisting(s, k)
    \/ \E s \in SinglePage, k \in 1 .. MaxSaves : WriteProgress(s, k)
    \/ \E s \in SinglePage, k \in 1 .. MaxSaves : ReadDailyStats(s, k)
    \/ \E s \in SinglePage, k \in 1 .. MaxSaves : WriteDailyStats(s, k)
    \/ \E u \in LearnUsers : \E wordUpdates \in WordUpdateLists(vocabulary) :
         StartBatch(u, Len(cycles), wordUpdates)
    \/ \E i \in 1 .. LoadVocab : BatchRead(i)
    \/ \E i \in 1 .. LoadVocab : BatchWrite(i)
    \/ BatchReturn

SpecFailures == InitFailures /\ [][NextFailures]_vars

\* C24: in a session commit a write that fails for one word does not keep
\* the other words from being committed, and batchUpdateWordProgress reports
\* counts that add up to the number of words, with failed the number of
\* words whose write failed: after the write of a word, failed or not,
\* handleComplete is at the next word, or at the daily stats after the last
\* word; and the batch returns after every word's update has run, with
\* success + failed the number of updates and failed the number of failed
\* writes.
C24_FailuresIsolated ==
    [][/\ \A s \in Sessions : \A k \in DOMAIN sessions[s].saves :
            LET save == sessions[s].saves[k]
            IN  (/\ save.pc = "write"
                 /\ k \in DOMAIN sessions'[s].saves
                 /\ sessions'[s].saves[k] # save)
                  => IF save.index < Len(save.updates)
                     THEN /\ sessions'[s].saves[k].pc = "read"
                          /\ sessions'[s].saves[k].index = save.index + 1
                     ELSE sessions'[s].saves[k].pc = "statsRead"
       /\ batch'.pc = "returned"
            => /\ \A i \in DOMAIN batch'.items : batch'.items[i].pc = "done"
               /\ batch'.success + batch'.failed = Len(batch'.wordUpdates)
               /\ batch'.failed
                    = Cardinality({ i \in DOMAIN batch'.items : batch'.items[i].error })]_vars

\* A session of both words has been committed although the write of the
\* first word failed: the first word has no row, and the one row of the
\* second word has been written by the session and by a batch of two
\* updates, which has returned with one success and one failure.
C24_Witness ==
    /\ \E s \in Sessions :
         LET keys == KeysOf(sessions[s].activities)
         IN  /\ sessions[s].pc = "completed"
             /\ Len(keys) = 2
             /\ Cardinality(userProgress) = 1
             /\ ProgressRowsOf(sessions[s].userId, keys[1], sessions[s].cycleId) = {}
             /\ \E r \in ProgressRowsOf(sessions[s].userId, keys[2], sessions[s].cycleId) :
                  r.times_reviewed = 2
    /\ batch.pc = "returned"
    /\ batch.success = 1
    /\ batch.failed = 1


(***************************************************************************)
(*      The learn page: generateAndShuffleActivities                       *)
(*                                                                         *)
(* Math.random is drawn once per turn of the loop of shuffleArray:         *)
(* Math.floor(Math.random() * (i + 1)) is any index of 0 .. i.  The        *)
(* selectModesForWord call of each word and the final shuffleArray are     *)
(* steps of their own, each with its draws.  Indices are counted from 1.   *)
(***************************************************************************)

GenWords == 2        \* words of the generated sessions: 1 .. GenWords
MaxRepetition == 2   \* their repetition counts: 0 .. MaxRepetition
MaxGenerated == 5    \* activities of the generated sessions

\* The draws of one shuffleArray call on an array of n elements: draws[i] is
\* the index j drawn when the loop is at i.
RECURSIVE RandomDraws(_)
RandomDraws(n) ==
    IF n = 0 THEN { <<>> }
    ELSE { Append(draws, j) : draws \in RandomDraws(n - 1), j \in 1 .. n }

\* [shuffled[i], shuffled[j]] = [shuffled[j], shuffled[i]] that loses
\* shuffled[i].
Swap_Overwrite(shuffled, i, j) == [shuffled EXCEPT ![i] = shuffled[j]]

\* [shuffled[i], shuffled[j]] = [shuffled[j], shuffled[i]]
Swap(shuffled, i, j) ==
    [shuffled EXCEPT ![i] = shuffled[j], ![j] = shuffled[i]]

\* The loop of shuffleArray from index i down to the second element.
RECURSIVE ShuffleFrom(_, _, _)
ShuffleFrom(shuffled, i, draws) ==
    IF i <= 1 THEN shuffled
    ELSE ShuffleFrom(Swap(shuffled, i, draws[i]), i - 1, draws)

shuffleArray(array, draws) == ShuffleFrom(array, Len(array), draws)

\* availableModes of selectModesForWord.
AvailableModes(speechRecognition) ==
    <<"multiple-choice-target", "multiple-choice-english",
      "listening-comprehension", "sentence-builder">>
    \o (IF speechRecognition THEN <<"pronunciation-practice">> ELSE <<>>)

\* shuffled.slice(0, modeCount)
selectModesForWord(word, speechRecognition, draws) ==
    LET shuffled == shuffleArray(AvailableModes(speechRecognition), draws)
    IN  SubSeq(shuffled, 1, Min(ModeCount(word.repetition), Len(shuffled)))

\* modes.forEach((modeType, index) => allActivities.push(...))
ActivitiesOf(word, modes) ==
    [index \in 1 .. Len(modes) |->
       [word |-> word, modeType |-> modes[index],
        activityId |-> <<word.id, modes[index], index - 1>>]]

\* adaptedWords: the words of a session in the order of the cycle, each with
\* the repetitions of its progress (0 without progress).
AdaptedWordLists ==
    UNION { [1 .. n -> [id : 1 .. n, repetition : 0 .. MaxRepetition]]
            : n \in 1 .. GenWords }

\* The call generateAndShuffleActivities(words) before its first step.
StartGeneration(words, speechRecognition) ==
    [pc |-> "modes", words |-> words, speechRecognition |-> speechRecognition,
     next |-> 1, allActivities |-> <<>>, activities |-> <<>>]

\* words.forEach: the turn of the next word.
SelectModes ==
    /\ generation.pc = "modes"
    /\ generation.next <= Len(generation.words)
    /\ LET word == generation.words[generation.next]
           modes == AvailableModes(generation.speechRecognition)
       IN  \E draws \in RandomDraws(Len(modes)) :
             generation' =
               [generation EXCEPT
                  !.next = @ + 1,
                  !.allActivities = @ \o ActivitiesOf(word,
                       selectModesForWord(word, generation.speechRecognition, draws))]
    /\ UNCHANGED <<cycleVars, sm2Vars, learnVars, happinessIn, happinessOut,
                   qualitiesIn, avgQualityOut, batch, readClock, streakCall, keyCall>>

\* return shuffleArray(allActivities)
ShuffleActivities ==
    /\ generation.pc = "modes"
    /\ generation.next > Len(generation.words)
    /\ \E draws \in RandomDraws(Len(generation.allActivities)) :
         generation' =
           [generation EXCEPT
              !.pc = "done",
              !.activities = shuffleArray(generation.allActivities, draws)]
    /\ UNCHANGED <<cycleVars, sm2Vars, learnVars, happinessIn, happinessOut,
                   qualitiesIn, avgQualityOut, batch, readClock, streakCall, keyCall>>

InitGeneration ==
    /\ \E words \in AdaptedWordLists, speechRecognition \in BOOLEAN :
         /\ \A i \in 1 .. Len(words) : words[i].id = i
         /\ SumSeq([i \in 1 .. Len(words) |-> ModeCount(words[i].repetition)])
              <= MaxGenerated
         /\ generation = StartGeneration(words, speechRecognition)
    /\ readClock = <<>>
    /\ streakCall = <<>>
    /\ keyCall = <<>>
    /\ happinessIn = <<>>
    /\ happinessOut = <<>>
    /\ qualitiesIn = <<>>
    /\ avgQualityOut = <<>>
    /\ batch = <<>>
    /\ IdleCycles
    /\ IdleSM2
    /\ IdleLearn

NextGeneration ==
    \/ SelectModes
    \/ ShuffleActivities

SpecGeneration == InitGeneration /\ [][NextGeneration]_vars

(***************************************************************************)
(*                Properties of the generated activities                   *)
(***************************************************************************)

Generated == generation # <<>> /\ generation.pc = "done"

\* The places of the list a that hold an activity of the word.
PlacesOf(a, wordId) == { i \in 1 .. Len(a) : a[i].word.id = wordId }

\* C31: in a generated session no two activities of one word have the same
\* exercise mode, and a word has exactly 3 activities when its repetition
\* count is at most 1 and exactly 2 otherwise.
C31_ModesPerWord ==
    Generated
      => \A k \in 1 .. Len(generation.words) :
           LET word == generation.words[k]
               places == PlacesOf(generation.activities, word.id)
           IN  /\ \A i, j \in places :
                    i # j => generation.activities[i].modeType
                               # generation.activities[j].modeType
               /\ Cardinality(places) = IF word.repetition <= 1 THEN 3 ELSE 2

\* A session of a word repeated once and a word repeated twice, with speech
\* recognition, in which both words have a listening activity.
C31_Witness ==
    /\ Generated
    /\ generation.speechRecognition
    /\ Len(generation.words) = 2
    /\ generation.words[1].repetition = 1
    /\ generation.words[2].repetition = 2
    /\ \E i, j \in 1 .. Len(generation.activities) :
         /\ generation.activities[i].word.id = 1
         /\ generation.activities[j].word.id = 2
         /\ generation.activities[i].modeType = "listening-comprehension"
         /\ generation.activities[j].modeType = "listening-comprehension"
         /\ j < i

\* The number of places of the list a that hold the activity x.
CountOf(a, x) == Cardinality({ i \in 1 .. Len(a) : a[i] = x })

\* C32: the activity list of the session is a permutation of the generated
\* (word, mode) pairs, whatever the random draws: no activity is dropped,
\* duplicated or altered, every word has an activity, and the length is the
\* sum of the activity counts of the words.
C32_ShufflePermutes ==
    Generated
      => LET all == generation.allActivities
             list == generation.activities
         IN  /\ Len(list) = Len(all)
             /\ \A i \in 1 .. Len(all) : CountOf(list, all[i]) = CountOf(all, all[i])
             /\ \A i \in 1 .. Len(list) : CountOf(all, list[i]) = CountOf(list, list[i])
             /\ \A k \in 1 .. Len(generation.words) :
                  PlacesOf(list, generation.words[k].id) # {}
             /\ Len(list)
                  = SumSeq([k \in 1 .. Len(generation.words) |->
                              Cardinality(PlacesOf(all, generation.words[k].id))])

\* A shuffle that interleaves the two words of the session: the list starts
\* with the second word and its last activity is the first one generated.
C32_Witness ==
    /\ Generated
    /\ Len(generation.words) = 2
    /\ Len(generation.activities) = MaxGenerated
    /\ generation.activities[1].word.id = 2
    /\ generation.activities[2].word.id = 1
    /\ generation.activities[3].word.id = 2
    /\ generation.activities[Len(generation.activities)] = generation.allActivities[1]


(***************************************************************************)
(*   checkAndCreateNewCycle called one at a time over several days, by     *)
(*   devices of any time zone: the days_remaining it reports               *)
(***************************************************************************)

\* The read of the active cycle with the clock that `today` was made from.
ReadActiveCycleOn(c) ==
    /\ \E clock \in Clocks(today) :
         /\ ReadActiveCycleBranch(c, clock)
         /\ readClock' = clock
    /\ UNCHANGED <<today, vocabulary, cycles, cycleWords, catState, sm2Vars, learnVars,
                   happinessIn, happinessOut, qualitiesIn, avgQualityOut, batch,
                   generation, streakCall, keyCall>>

InitRemaining ==
    /\ today = 0
    /\ vocabulary = 1 .. WordsPerCycle
    /\ cycles = <<>>
    /\ cycleWords = {}
    /\ catState = {}
    /\ calls = [c \in Calls |-> IdleCall]
    /\ IdleSM2
    /\ IdleStudies
    /\ IdleLearn

NextRemaining ==
    \/ \E u \in RotationUsers : StartAlone(u, "check")
    \/ ReadActiveCycleOn(1)
    \/ DeactivateExpired(1)
    \/ InsertCycle(1)
    \/ InsertCatState(1)
    \/ SelectLastCycles(1)
    \/ SelectRecentWords(1)
    \/ InsertCycleWords(1)
    \/ FinishCall(1)
    \/ Tick

SpecRemaining == InitRemaining /\ [][NextRemaining]_vars

\* C33: for an unexpired active cycle checkAndCreateNewCycle reports as
\* days_remaining the number of whole days from today to end_date (today by
\* the UTC calendar or by the calendar of the device), a number of 0 .. 2;
\* a call that created the cycle reports 2.
C33_DaysRemaining ==
    [][\A c \in Calls :
         (calls[c].pc # "done" /\ calls'[c].returned = "cycle")
         => LET end_date == cycles'[calls'[c].info.id].end_date
                days_remaining == calls'[c].info.days_remaining
            IN  IF calls[c].pc = "readActive"
                THEN /\ days_remaining \in 0 .. CycleLengthDays
                     /\ \/ days_remaining = end_date - ISODate(readClock'.now)
                        \/ days_remaining = end_date - LocalDay(readClock')
                ELSE days_remaining = CycleLengthDays]_vars


\* C34: the cycle rows of a pairing key have pairwise distinct sequence
\* numbers, and a cycle created later (a row of a higher id) has a greater
\* sequence number than every earlier cycle of its key.
C34_SequenceNumbersIncrease ==
    \A i, j \in CycleIds :
        (i < j /\ cycles[i].couple_id = cycles[j].couple_id)
        => cycles[i].cycle_number < cycles[j].cycle_number


\* A step keeps every cycle row: the rows of the state before are rows of the
\* state after, changed at most in is_active.
CyclesKept ==
    /\ Len(cycles') >= Len(cycles)
    /\ \A i \in CycleIds :
         [cycles'[i] EXCEPT !.is_active = cycles[i].is_active] = cycles[i]

\* A step activates no row that exists already.
NoneReactivated ==
    \A i \in CycleIds : cycles'[i].is_active => cycles[i].is_active

\* A step creates a cycle, active, only for a key that has no active cycle
\* (no cycle at all, or only deactivated ones).
CreatedAfterExpiry ==
    \A j \in (Len(cycles) + 1) .. Len(cycles') :
        /\ cycles'[j].is_active
        /\ ActiveRowsOf(cycles'[j].couple_id) = {}

\* C35: cycles are never deleted and never reactivated, and the cycles of a
\* key follow NoCycle -> Active -> Expired -> Active (new cycle): a new cycle
\* becomes active only when the key has no cycle or only deactivated ones.
C35_CycleLifecycle ==
    [][CyclesKept /\ NoneReactivated /\ CreatedAfterExpiry]_vars


\* C36: a session of K activities begins its commit exactly once, by the
\* completion of its K-th activity and not before: a step of an active page
\* begins a commit only when K - 1 activities have been completed and no
\* commit has begun; an earlier completion only records the quality and
\* moves the activity index by one, writes nothing and leaves the page
\* active; a page becomes completed only after K completions.
C36_CommitOnceAtTheEnd ==
    [][\A s \in Sessions :
         LET ses == sessions[s]
             after == sessions'[s]
             K == Len(ses.activities)
         IN  (ses.pc = "active" /\ K >= 1 /\ after # ses /\ after.pc # "closed")
               => /\ Len(after.saves) > Len(ses.saves)
                       => (ses.saves = <<>> /\ ses.activitiesCompleted = K - 1)
                  /\ (/\ ses.activitiesCompleted < K - 1
                      /\ after.activitiesCompleted # ses.activitiesCompleted)
                       => /\ after.activitiesCompleted = ses.activitiesCompleted + 1
                          /\ after.currentActivityIndex = ses.currentActivityIndex + 1
                          /\ after.saves = <<>>
                          /\ ~after.completed
                          /\ UNCHANGED <<userProgress, dailyStats>>
                  /\ after.completed => after.activitiesCompleted >= K]_vars


RECURSIVE StatsFrom(_, _)
StatsFrom(goal, d) ==
    IF d < 0 THEN <<>>
    ELSE (IF goal[d] = "none" THEN <<>>
          ELSE <<[date |-> d, completed_daily_goal |-> (goal[d] = "met")]>>)
         \o StatsFrom(goal, d - 1)

\* allStats of a learner whose rows are of the days 0 .. MaxDay, one row per
\* date at most.
AllStatsInputs ==
    { StatsFrom(goal, MaxDay) : goal \in [0 .. MaxDay -> {"none", "missed", "met"}] }

\* for (const stat of allStats): the loop from the i-th row on.
RECURSIVE StreakLoop(_, _, _, _)
StreakLoop(allStats, i, clock, acc) ==
    IF i > Len(allStats) THEN acc
    ELSE LET stat == allStats[i]
             statDate == LocalMidnight(clock.zone, ParseDate(stat.date))
             daysDiff == (TodayMidnight(clock) - statDate) \div HoursPerDay
             tempStreak == acc.tempStreak + 1
             next == IF ~stat.completed_daily_goal THEN acc
                     ELSE IF daysDiff = acc.tempStreak
                     THEN [tempStreak |-> tempStreak,
                           currentStreak |-> IF daysDiff < 2 THEN tempStreak
                                             ELSE acc.currentStreak,
                           longestStreak |-> Max(acc.longestStreak, tempStreak)]
                     ELSE [acc EXCEPT !.tempStreak = 0]
         IN  StreakLoop(allStats, i + 1, clock, next)

\* currentStreak and longestStreak of getUserStats.
getUserStats(allStats, clock) ==
    LET acc == StreakLoop(allStats, 1, clock,
                          [tempStreak |-> 0, currentStreak |-> 0, longestStreak |-> 0])
    IN  [currentStreak |-> acc.currentStreak, longestStreak |-> acc.longestStreak]

CallUserStats ==
    /\ streakCall.pc = "call"
    /\ streakCall' = [streakCall EXCEPT
                        !.pc = "done",
                        !.stats = getUserStats(streakCall.allStats, streakCall.clock)]
    /\ UNCHANGED <<cycleVars, sm2Vars, learnVars, happinessIn, happinessOut,
                   qualitiesIn, avgQualityOut, batch, generation, readClock, keyCall>>

InitStreak ==
    /\ \E allStats \in AllStatsInputs, clock \in Clocks(MaxDay) :
         streakCall = [pc |-> "call", allStats |-> allStats, clock |-> clock,
                       stats |-> [currentStreak |-> 0, longestStreak |-> 0]]
    /\ generation = <<>>
    /\ readClock = <<>>
    /\ keyCall = <<>>
    /\ happinessIn = <<>>
    /\ happinessOut = <<>>
    /\ qualitiesIn = <<>>
    /\ avgQualityOut = <<>>
    /\ batch = <<>>
    /\ IdleCycles
    /\ IdleSM2
    /\ IdleLearn

SpecStreak == InitStreak /\ [][CallUserStats]_vars

\* The day d has a row with the daily goal met.
GoalMet(allStats, d) ==
    \E i \in 1 .. Len(allStats) :
        allStats[i].date = d /\ allStats[i].completed_daily_goal

\* The number of consecutive goal-met calendar days that end with the day d.
RECURSIVE DaysInARow(_, _)
DaysInARow(allStats, d) ==
    IF d >= 0 /\ GoalMet(allStats, d) THEN 1 + DaysInARow(allStats, d - 1) ELSE 0

\* The streak that ends today or, when today's goal is not met, yesterday.
StreakOn(allStats, day) ==
    IF GoalMet(allStats, day) THEN DaysInARow(allStats, day)
    ELSE DaysInARow(allStats, day - 1)

\* C38: getUserStats gives as currentStreak the number of consecutive
\* goal-met calendar days that end today or, if today's goal is not met,
\* yesterday (today by the UTC calendar of the rows or by the calendar of the
\* device), whatever rows exist, and longestStreak is not below currentStreak.
C38_CurrentStreak ==
    (streakCall # <<>> /\ streakCall.pc = "done")
      => /\ \/ streakCall.stats.currentStreak
                 = StreakOn(streakCall.allStats, ISODate(streakCall.clock.now))
            \/ streakCall.stats.currentStreak
                 = StreakOn(streakCall.allStats, LocalDay(streakCall.clock))
         /\ streakCall.stats.longestStreak >= streakCall.stats.currentStreak


(***************************************************************************)
(*        updateWordProgress called with a quality outside 0 .. 5          *)
(***************************************************************************)

\* The arguments of a batchUpdateWordProgress call of any caller: each word
\* once, with any number as its quality.
AnyQualityUpdateLists(words) ==
    { u \in UNION { [1 .. n -> [wordId : words, qualityScore : QualityInputs]] :
                    n \in 1 .. Cardinality(words) } :
        \A i \in DOMAIN u, j \in DOMAIN u : u[i].wordId = u[j].wordId => i = j }

InitValidation ==
    /\ CommitStore
    /\ sessions = [s \in Sessions |-> IdleSession]
    /\ IdleSM2
    /\ happinessIn = <<>>
    /\ happinessOut = <<>>
    /\ qualitiesIn = <<>>
    /\ avgQualityOut = <<>>
    /\ batch = IdleBatch
    /\ IdlePure

\* One batch update of the learner's words; every update is one
\* updateWordProgress call.
NextValidation ==
    \/ \E u \in LearnUsers : \E wordUpdates \in AnyQualityUpdateLists(vocabulary) :
         StartBatch(u, Len(cycles), wordUpdates)
    \/ \E i \in 1 .. LoadVocab : BatchRead(i)
    \/ \E i \in 1 .. LoadVocab : BatchWrite(i)
    \/ BatchReturn

SpecValidation == InitValidation /\ [][NextValidation]_vars

\* The update i of the batch has a quality outside 0 .. 5.
OutOfRange(i) ==
    \/ batch.wordUpdates[i].qualityScore < 0
    \/ batch.wordUpdates[i].qualityScore > MaxQuality

\* C39: updateWordProgress called with a quality outside [0,5] returns false
\* and leaves the store unchanged: the call never reaches a write, and the
\* step in which it returns counts it as failed and changes no row of
\* user_progress or daily_stats.
C39_InvalidQualityRejected ==
    [][\A i \in DOMAIN batch.items :
         (batch.pc = "running" /\ OutOfRange(i))
           => /\ batch'.items[i].pc # "write"
              /\ (batch.items[i].pc = "read" /\ batch'.items[i].pc # "read")
                   => /\ batch'.items[i].pc = "done"
                      /\ batch'.failed = batch.failed + 1
                      /\ batch'.success = batch.success
                      /\ userProgress' = userProgress
                      /\ dailyStats' = dailyStats]_vars

\* A batch has returned in which the update of a word that has a record was
\* rejected for its quality above 5, the record as it was, while the update
\* of the other word was written.
C39_Witness ==
    /\ batch.pc = "returned"
    /\ batch.success = 1
    /\ batch.failed = 1
    /\ \E i \in DOMAIN batch.items :
         /\ batch.wordUpdates[i].qualityScore > MaxQuality
         /\ ~batch.items[i].error
         /\ CommitRow(batch.wordUpdates[i].wordId) \in userProgress


(***************************************************************************)
(*        The pairing key as the modules derive it from the ids            *)
(*                                                                         *)
(* The ids of users are strings, here the sequences of their UTF-16 code   *)
(* units.  Each derivation reads the learner's users row and builds the    *)
(* couple_id it queries with.  A partner_id of null is the empty sequence: *)
(* the derivations test partner_id for truthiness only, and the empty      *)
(* string is as falsy as null.                                             *)
(***************************************************************************)

IdLen == 2                  \* the ids have 1 .. IdLen code units
IdUnits == {45, 48, 97}     \* the code units of "-", "0" and "a"
Separator == <<95>>         \* "_"
NullId == <<>>

Ids == UNION { [1 .. n -> IdUnits] : n \in 1 .. IdLen }

\* x < y of two strings: by code units, a proper prefix first.
RECURSIVE CodeUnitsLess(_, _)
CodeUnitsLess(x, y) ==
    IF y = <<>> THEN FALSE
    ELSE IF x = <<>> THEN TRUE
    ELSE IF Head(x) # Head(y) THEN Head(x) < Head(y)
    ELSE CodeUnitsLess(Tail(x), Tail(y))

\* [a, b].sort() that leaves the array as it is.
SortPair_Unsorted(a, b) == <<a, b>>

\* [a, b].sort()
SortPair(a, b) == IF CodeUnitsLess(b, a) THEN <<b, a>> ELSE <<a, b>>

\* pair.join('_')
Join(pair) == pair[1] \o Separator \o pair[2]

\* getCoupleId(userId, partnerId) of lib/cycles.ts on the strings.
CoupleIdString(userId, partnerId) ==
    IF partnerId = NullId
    THEN userId \o Separator \o userId
    ELSE Join(SortPair(userId, partnerId))

\* coupleId of checkAndCreateNewCycle: getCoupleId(userId, user?.partner_id || null)
CyclesKey(user) == CoupleIdString(user.id, user.partner_id)

\* coupleId of getCurrentCycle: partnerId = user?.partner_id || userId
LearningKey(user) ==
    LET partnerId == IF user.partner_id = NullId THEN user.id ELSE user.partner_id
    IN  Join(SortPair(user.id, partnerId))

\* coupleId of loadDashboardData, in its branch of a profile with a partner.
DashboardKey(profile) == Join(SortPair(profile.id, profile.partner_id))

KeyModules == {"cycles", "learning", "dashboard"}
NoKey == <<>>

\* Two users rows whose learners are linked to each other, or of which
\* neither has a partner.
InitKeys ==
    /\ \E a \in Ids, b \in Ids, linked \in BOOLEAN :
         /\ a # b
         /\ keyCall = [users |-> << [id |-> a, partner_id |-> IF linked THEN b ELSE NullId],
                                    [id |-> b, partner_id |-> IF linked THEN a ELSE NullId] >>,
                       keys |-> [who \in 1 .. 2 |-> [m \in KeyModules |-> NoKey]]]
    /\ generation = <<>>
    /\ readClock = <<>>
    /\ streakCall = <<>>
    /\ happinessIn = <<>>
    /\ happinessOut = <<>>
    /\ qualitiesIn = <<>>
    /\ avgQualityOut = <<>>
    /\ batch = <<>>
    /\ IdleCycles
    /\ IdleSM2
    /\ IdleLearn

\* The learner `who` gets the key of the module m.
Derived(who, m, key) ==
    /\ keyCall.keys[who][m] = NoKey
    /\ keyCall' = [keyCall EXCEPT !.keys[who][m] = key]
    /\ UNCHANGED <<cycleVars, sm2Vars, learnVars, happinessIn, happinessOut,
                   qualitiesIn, avgQualityOut, batch, generation, readClock,
                   streakCall>>

\* checkAndCreateNewCycle(userId) up to its coupleId.
DeriveInCycles(who) == Derived(who, "cycles", CyclesKey(keyCall.users[who]))

\* getCurrentCycle(userId) up to its coupleId.
DeriveInLearning(who) == Derived(who, "learning", LearningKey(keyCall.users[who]))

\* loadDashboardData up to its coupleId: if (profile.partner_id).
DeriveInDashboard(who) ==
    /\ keyCall.users[who].partner_id # NullId
    /\ Derived(who, "dashboard", DashboardKey(keyCall.users[who]))

NextKeys ==
    \/ \E who \in 1 .. 2 : DeriveInCycles(who)
    \/ \E who \in 1 .. 2 : DeriveInLearning(who)
    \/ \E who \in 1 .. 2 : DeriveInDashboard(who)

SpecKeys == InitKeys /\ [][NextKeys]_vars

\* The two learners of the rows are linked to each other.
Linked ==
    /\ keyCall.users[1].partner_id = keyCall.users[2].id
    /\ keyCall.users[2].partner_id = keyCall.users[1].id

\* C40: the pairing key is the same whichever partner and whichever module
\* computes it: getCoupleId(a, b) = getCoupleId(b, a) for linked learners a
\* and b, every key that either of them derives in any module is that key,
\* the key of a solo learner is the learner's id twice, and getCurrentCycle
\* derives the key that getCoupleId gives for the same learner.
C40_SamePairingKey ==
    keyCall # <<>>
      => LET a == keyCall.users[1].id
             b == keyCall.users[2].id
         IN  /\ Linked
                  => /\ CoupleIdString(a, b) = CoupleIdString(b, a)
                     /\ \A who \in 1 .. 2, m \in KeyModules :
                          keyCall.keys[who][m] # NoKey
                            => keyCall.keys[who][m] = CoupleIdString(a, b)
             /\ \A who \in 1 .. 2 :
                  LET user == keyCall.users[who]
                  IN  /\ (user.partner_id = NullId /\ keyCall.keys[who]["cycles"] # NoKey)
                           => keyCall.keys[who]["cycles"]
                                = user.id \o Separator \o user.id
                      /\ (keyCall.keys[who]["cycles"] # NoKey
                            /\ keyCall.keys[who]["learning"] # NoKey)
                           => keyCall.keys[who]["learning"] = keyCall.keys[who]["cycles"]

\* Two linked learners, the id of the first a string that sorts after the id
\* of the second and begins with it, have both derived the key in all three
\* modules.
C40_Witness ==
    /\ keyCall # <<>>
    /\ Linked
    /\ CodeUnitsLess(keyCall.users[2].id, keyCall.users[1].id)
    /\ Len(keyCall.users[2].id) < Len(keyCall.users[1].id)
    /\ Head(keyCall.users[2].id) = Head(keyCall.users[1].id)
    /\ \A who \in 1 .. 2, m \in KeyModules : keyCall.keys[who][m] # NoKey
    /\ keyCall.keys[1]["cycles"]
         = keyCall.users[2].id \o Separator \o keyCall.users[1].id

\* A learner without a partner has derived the key in both libraries.
C40_SoloWitness ==
    /\ keyCall # <<>>
    /\ keyCall.users[1].partner_id = NullId
    /\ keyCall.keys[1]["cycles"] # NoKey
    /\ keyCall.keys[1]["learning"] = keyCall.keys[1]["cycles"]

=============================================================================
